---- MODULE Spec2Model ----
(***************************************************************************)
(* A model of notebook/process_notebook.py: the conversion of annotated    *)
(* Jupyter notebook templates into doxygen markdown, a runnable script     *)
(* and one or two notebooks.                                               *)
(*                                                                         *)
(* Text is modelled as a sequence of tokens.  A token is a run of          *)
(* characters that every regular expression of the program treats as a     *)
(* unit ("#", " ", "%%", "html", "only", a word, ...), so that the         *)
(* regular expressions can be translated position by position.             *)
(***************************************************************************)
EXTENDS Integers, Sequences, FiniteSets, TLC

\* ------------------------------------------------------------------------
\* Bounds of the model
\* ------------------------------------------------------------------------
\* number of template roots given on the command line
MaxRoots == 2
\* number of cells of the templates built from CoreCells
MaxCells == 2

\* ------------------------------------------------------------------------
\* Strings
\* ------------------------------------------------------------------------
\* the regular expression class \s
WS == {" ", "\n"}

Max(S) == CHOOSE x \in S : \A y \in S : y <= x
Min(S) == CHOOSE x \in S : \A y \in S : x <= y

\* str.startswith
StartsWith(s, p) == Len(s) >= Len(p) /\ SubSeq(s, 1, Len(p)) = p
\* str.endswith
EndsWith(s, p) == Len(s) >= Len(p) /\ SubSeq(s, Len(s) - Len(p) + 1, Len(s)) = p
\* p in s
Contains(s, p) == \E i \in 1..(Len(s) - Len(p) + 1) : SubSeq(s, i, i + Len(p) - 1) = p

\* length of the longest run of tokens of s from position i that are in S
\* (a greedy X* over the class S)
SpanIn(s, i, S) == Max({j \in i..(Len(s) + 1) : \A k \in i..(j - 1) : s[k] \in S}) - i
\* length of the longest run of tokens of s from position i that are not in S
SpanNotIn(s, i, S) == Max({j \in i..(Len(s) + 1) : \A k \in i..(j - 1) : s[k] \notin S}) - i

\* "".join(lines)
RECURSIVE Join(_)
Join(lines) == IF lines = << >> THEN << >> ELSE Head(lines) \o Join(Tail(lines))

\* "%d" % n for n >= 0
DigitTokens == <<"0", "1", "2", "3", "4", "5", "6", "7", "8", "9">>
RECURSIVE FormatInt(_)
FormatInt(n) == IF n < 10 THEN <<DigitTokens[n + 1]>>
                ELSE FormatInt(n \div 10) \o <<DigitTokens[(n % 10) + 1]>>

\* c * n for a one-token string c
Repeat(c, n) == [k \in 1..n |-> c]

\* str.replace(a, b) for a one-token string a
RECURSIVE Replace(_, _, _)
Replace(s, a, b) == IF s = << >> THEN << >>
                    ELSE (IF Head(s) = a THEN b ELSE <<Head(s)>>) \o Replace(Tail(s), a, b)

\* s.split(sep)[-1] for a one-token separator
LastAfter(s, sep) == LET P == {i \in 1..Len(s) : s[i] = sep}
                     IN IF P = {} THEN s ELSE SubSeq(s, Max(P) + 1, Len(s))

NoMatch == [ok |-> FALSE]

\* ------------------------------------------------------------------------
\* Cell-conditional markers
\* ------------------------------------------------------------------------
\* '#?%%(html|nb|colab)(exclude|only)' matched at the start of s
non_jupyter_constructs(s) ==
    LET k == IF Len(s) >= 1 /\ s[1] = "#" THEN 1 ELSE 0
    IN /\ Len(s) >= k + 3
       /\ s[k + 1] = "%%"
       /\ s[k + 2] \in {"html", "nb", "colab"}
       /\ s[k + 3] \in {"exclude", "only"}

\* re.search('%%(\S+)only', s): the leftmost "%%", the longest group
only_search(s) ==
    LET GroupEnds(p) == {e \in (p + 2)..(p + SpanNotIn(s, p + 1, WS)) : s[e] = "only"}
        Starts == {p \in 1..Len(s) : s[p] = "%%" /\ GroupEnds(p) # {}}
    IN IF Starts = {} THEN NoMatch
       ELSE LET p == Min(Starts)
            IN [ok |-> TRUE, group |-> SubSeq(s, p + 1, Max(GroupEnds(p)) - 1)]

\* ------------------------------------------------------------------------
\* TableOfContents
\* ------------------------------------------------------------------------
\* anchor_re.match(s) for '(#+)\s+(.*?)\s*\{#([^\s}]+)\}': the hashes, all
\* the white space after them, the shortest title (no newline in it) after
\* which an anchor '{#name}' follows, possibly after white space
anchor_re(s) ==
    LET k == SpanIn(s, 1, {"#"})
        w == SpanIn(s, k + 1, WS)
        p == k + w + 1
        q(e) == e + SpanIn(s, e, WS)
        n(e) == SpanNotIn(s, q(e) + 2, WS \cup {"}"})
        Ok(e) == /\ \A x \in p..(e - 1) : s[x] # "\n"
                 /\ q(e) + 1 <= Len(s)
                 /\ s[q(e)] = "{"
                 /\ s[q(e) + 1] = "#"
                 /\ n(e) >= 1
                 /\ q(e) + 2 + n(e) <= Len(s)
                 /\ s[q(e) + 2 + n(e)] = "}"
        cands == {e \in p..(Len(s) + 1) : Ok(e)}
    IN IF k >= 1 /\ w >= 1 /\ cands # {}
       THEN LET e == Min(cands)
            IN [ok |-> TRUE, level |-> k, title |-> SubSeq(s, p, e - 1),
                anchor |-> SubSeq(s, q(e) + 2, q(e) + 1 + n(e))]
       ELSE NoMatch

\* noanchor_re.match(s) for '(#+)\s+(.*?)\s*$': the shortest title after
\* which only white space is left
noanchor_re(s) ==
    LET k == SpanIn(s, 1, {"#"})
        w == SpanIn(s, k + 1, WS)
        p == k + w + 1
        Ok(e) == /\ \A x \in p..(e - 1) : s[x] # "\n"
                 /\ \A x \in e..Len(s) : s[x] \in WS
        cands == {e \in p..(Len(s) + 1) : Ok(e)}
    IN IF k >= 1 /\ w >= 1 /\ cands # {}
       THEN LET e == Min(cands)
            IN [ok |-> TRUE, level |-> k, title |-> SubSeq(s, p, e - 1)]
       ELSE NoMatch

\* the anchor without the number of the file
AutoAnchor_no_file(filenum, n) == <<"autotoc">> \o FormatInt(n)

\* "autotoc%dv%d" % (filenum, n)
AutoAnchor(filenum, n) == <<"autotoc">> \o FormatInt(filenum) \o <<"v">> \o FormatInt(n)

\* the format without the space after the hashes
AnchoredLine_no_space(level, title, anchor) ==
    Repeat("#", level) \o title \o <<" ", "{", "#">> \o anchor \o <<"}">>

\* '%s %s {#%s}' % (hashes, title, anchor)
AnchoredLine(level, title, anchor) ==
    Repeat("#", level) \o <<" ">> \o title \o <<" ", "{", "#">> \o anchor \o <<"}">>

\* TableOfContents.add_missing_anchors: the rewritten source and the new
\* value of self._auto_toc
RECURSIVE add_missing_anchors(_, _, _)
add_missing_anchors(source, filenum, auto_toc) ==
    IF source = << >> THEN [source |-> << >>, auto_toc |-> auto_toc]
    ELSE LET s == Head(source)
             m == noanchor_re(s)
             gen == ~anchor_re(s).ok /\ m.ok
             cnt == IF gen THEN auto_toc + 1 ELSE auto_toc
             line == IF gen THEN AnchoredLine(m.level, m.title, AutoAnchor(filenum, cnt))
                     ELSE s
             rest == add_missing_anchors(Tail(source), filenum, cnt)
         IN [source |-> <<line>> \o rest.source, auto_toc |-> rest.auto_toc]

\* get_sections of parse_cell: the (level, title, anchor) of each anchored heading
RECURSIVE get_sections(_)
get_sections(source) ==
    IF source = << >> THEN << >>
    ELSE LET m == anchor_re(Head(source))
         IN (IF m.ok THEN <<[level |-> m.level, title |-> m.title, anchor |-> m.anchor]>>
             ELSE << >>) \o get_sections(Tail(source))

\* parse_cell without the test of the first heading
RECURSIVE add_sections_any_first(_, _)
add_sections_any_first(entries, sections) ==
    IF sections = << >> THEN [entries |-> entries, err |-> "none"]
    ELSE LET h == Head(sections)
         IN IF entries # << >> /\ h.level > entries[Len(entries)].level + 1
            THEN [entries |-> entries, err |-> "ValueError: heading cannot follow"]
            ELSE add_sections_any_first(Append(entries, h), Tail(sections))

\* the loop of parse_cell over the sections: entries are appended until a
\* section breaks the nesting rule, which raises ValueError
RECURSIVE add_sections(_, _)
add_sections(entries, sections) ==
    IF sections = << >> THEN [entries |-> entries, err |-> "none"]
    ELSE LET h == Head(sections)
         IN IF entries # << >> /\ h.level > entries[Len(entries)].level + 1
            THEN [entries |-> entries, err |-> "ValueError: heading cannot follow"]
            ELSE IF entries = << >> /\ h.level # 1
            THEN [entries |-> entries, err |-> "ValueError: top-level section is not level one"]
            ELSE add_sections(Append(entries, h), Tail(sections))

\* parse_cell without the test for %%nbexclude
parse_cell_all(entries, source) == add_sections(entries, get_sections(source))

\* TableOfContents.parse_cell
parse_cell(entries, source) ==
    IF source # << >> /\ Contains(source[1], <<"%%", "nb", "exclude">>)
    THEN [entries |-> entries, err |-> "none"]
    ELSE add_sections(entries, get_sections(source))

\* get_markdown without the loop over the entries
get_markdown_no_entries(entries) == << <<"**Table of contents**", "\n">>, <<"\n">> >>

\* TableOfContents.get_markdown
get_markdown(entries) ==
    << <<"**Table of contents**", "\n">>, <<"\n">> >>
    \o [i \in 1..Len(entries) |->
          Repeat(" ", entries[i].level) \o <<"-", " ", "[">> \o entries[i].title
          \o <<"]", "(", "#">> \o entries[i].anchor \o <<")", "\n">>]

\* ------------------------------------------------------------------------
\* re.sub
\* ------------------------------------------------------------------------
\* re.sub(pattern, repl, s): m[i] is the match of the pattern that starts at
\* position i ([ok, len, out]); the scan is left to right and the matches do
\* not overlap
RECURSIVE re_sub(_, _, _)
re_sub(s, m, i) ==
    IF i > Len(s) THEN << >>
    ELSE IF m[i].ok THEN m[i].out \o re_sub(s, m, i + m[i].len)
    ELSE <<s[i]>> \o re_sub(s, m, i + 1)

\* the start positions of the matches that re.sub replaces, in order
RECURSIVE re_matches(_, _, _)
re_matches(s, m, i) ==
    IF i > Len(s) THEN << >>
    ELSE IF m[i].ok THEN <<i>> \o re_matches(s, m, i + m[i].len)
    ELSE re_matches(s, m, i + 1)

\* a match of '<word>\s+([^\s)]+)' at position i: [ok, len, group]
word_arg(s, i, word) ==
    LET w == SpanIn(s, i + 1, WS)
        n == SpanNotIn(s, i + 1 + w, WS \cup {")"})
    IN IF s[i] = word /\ w >= 1 /\ n >= 1
       THEN [ok |-> TRUE, len |-> 1 + w + n, group |-> SubSeq(s, i + 1 + w, i + w + n)]
       ELSE NoMatch

\* ------------------------------------------------------------------------
\* RefLinks
\* ------------------------------------------------------------------------
\* dict.get(k) of a dict from names to URLs; None is the empty text, which
\* Python's "or" and "not" treat as None
Get(refs, k) == IF k \in DOMAIN refs THEN refs[k] ELSE << >>
\* refs[k] = v
Put(refs, k, v) == [x \in (DOMAIN refs) \cup {k} |-> IF x = k THEN v ELSE refs[x]]

\* _add_member_tags without the entry for the base class
RECURSIVE _add_member_tags_no_base(_, _, _, _, _)
_add_member_tags_no_base(refs, cls, clsname, clsbase, urltop) ==
    IF cls = << >> THEN refs
    ELSE LET meth == Head(cls)
             url == urltop \o meth.anchorfile \o <<"#">> \o meth.anchor
         IN IF meth.tag = "member" /\ meth.kind = "function"
            THEN _add_member_tags_no_base(Put(refs, clsname \o <<"::">> \o meth.name, url),
                                          Tail(cls), clsname, clsbase, urltop)
            ELSE _add_member_tags_no_base(refs, Tail(cls), clsname, clsbase, urltop)

\* RefLinks._add_member_tags: the members of a class or namespace, in order
RECURSIVE _add_member_tags(_, _, _, _, _)
_add_member_tags(refs, cls, clsname, clsbase, urltop) ==
    IF cls = << >> THEN refs
    ELSE LET meth == Head(cls)
             base_suffix == Replace(clsbase, "::", <<"_1_1">>) \o <<".html">>
             url == urltop \o meth.anchorfile \o <<"#">> \o meth.anchor
             r1 == Put(refs, clsname \o <<"::">> \o meth.name, url)
             r2 == IF clsbase # << >> /\ EndsWith(meth.anchorfile, base_suffix)
                   THEN Put(r1, clsbase \o <<"::">> \o meth.name, url)
                   ELSE r1
         IN IF meth.tag = "member" /\ meth.kind = "function"
            THEN _add_member_tags(r2, Tail(cls), clsname, clsbase, urltop)
            ELSE _add_member_tags(refs, Tail(cls), clsname, clsbase, urltop)

\* the loop of RefLinks._add_file_tags over the children of a file compound
RECURSIVE file_children(_, _, _, _)
file_children(refs, children, namespace, urltop) ==
    IF children = << >> THEN refs
    ELSE LET child == Head(children)
             ns == IF child.tag = "namespace" THEN child.text ELSE namespace
             url == urltop \o child.anchorfile \o <<"#">> \o child.anchor
         IN IF ns # << >> /\ child.tag = "member" /\ child.kind = "typedef"
            THEN file_children(Put(refs, ns \o <<"::">> \o child.name, url),
                               Tail(children), ns, urltop)
            ELSE file_children(refs, Tail(children), ns, urltop)

\* RefLinks._add_file_tags
_add_file_tags(refs, page, urltop) ==
    LET r1 == file_children(refs, page.children, << >>, urltop)
    IN IF EndsWith(page.name, <<".h">>)
       THEN Put(r1, <<"IMP/">> \o page.name, urltop \o page.filename \o <<".html">>)
       ELSE r1

\* the loop of RefLinks._add_page_tags over the children of a page compound
RECURSIVE page_children(_, _, _)
page_children(refs, children, urltop) ==
    IF children = << >> THEN refs
    ELSE LET child == Head(children)
             url == urltop \o child.file \o <<".html#">> \o child.text
         IN IF child.tag = "docanchor"
            THEN page_children(Put(refs, child.text, url), Tail(children), urltop)
            ELSE page_children(refs, Tail(children), urltop)

\* RefLinks._add_page_tags
_add_page_tags(refs, page, urltop) ==
    page_children(Put(refs, page.name, urltop \o page.filename \o <<".html">>),
                  page.children, urltop)

\* RefLinks.parse_doxygen_tag_file: the compounds of the tag file, in order
RECURSIVE parse_doxygen_tag_file(_, _, _)
parse_doxygen_tag_file(refs, root, urltop) ==
    IF root = << >> THEN refs
    ELSE LET c == Head(root)
             r == IF c.tag = "compound" /\ c.kind \in {"class", "namespace"}
                  THEN _add_member_tags(Put(refs, c.name, urltop \o c.filename),
                                        c.children, c.name, c.base, urltop)
                  ELSE IF c.tag = "compound" /\ c.kind = "page"
                  THEN _add_page_tags(refs, c, urltop)
                  ELSE IF c.tag = "compound" /\ c.kind = "file"
                  THEN _add_file_tags(refs, c, urltop)
                  ELSE refs
         IN parse_doxygen_tag_file(r, Tail(root), urltop)

\* _replace_backtick_link that keeps the '~' in the target
_replace_backtick_link_keep_sigil(txt) ==
    IF StartsWith(txt, <<"~">>)
    THEN <<"[">> \o LastAfter(LastAfter(txt, "."), "::") \o <<"]", "(", "@ref", " ">>
         \o txt \o <<")">>
    ELSE <<"[">> \o txt \o <<"]", "(", "@ref", " ">> \o txt \o <<")">>

\* RefLinks._replace_backtick_link
_replace_backtick_link(txt) ==
    IF StartsWith(txt, <<"~">>)
    THEN <<"[">> \o LastAfter(LastAfter(txt, "."), "::") \o <<"]", "(", "@ref", " ">>
         \o Tail(txt) \o <<")">>
    ELSE <<"[">> \o txt \o <<"]", "(", "@ref", " ">> \o txt \o <<")">>

\* backtick_link at position i: two backquotes (the token "<bq2>"), one or
\* more characters that are neither white space nor a backquote, two backquotes
backtick_link(s, i) ==
    LET n == SpanNotIn(s, i + 1, WS \cup {"<bq2>"})
    IN IF s[i] = "<bq2>" /\ n >= 1 /\ i + 1 + n <= Len(s) /\ s[i + 1 + n] = "<bq2>"
       THEN [ok |-> TRUE, len |-> n + 2, group |-> SubSeq(s, i + 1, i + n),
             out |-> _replace_backtick_link(SubSeq(s, i + 1, i + n))]
       ELSE NoMatch

\* _replace_ref_link that looks the token up as written only
_replace_ref_link_verbatim(refs, ref) == Get(refs, ref)

\* RefLinks._replace_ref_link: the link, or the empty text when it raises ValueError
_replace_ref_link(refs, ref) ==
    IF Get(refs, ref) # << >> THEN Get(refs, ref)
    ELSE Get(refs, Replace(ref, ".", <<"::">>))

\* ref_link, '@ref\s+([^\s)]+)', at position i
ref_link(refs, s, i) ==
    LET m == word_arg(s, i, "@ref")
    IN IF m.ok THEN [ok |-> TRUE, len |-> m.len, group |-> m.group,
                     out |-> _replace_ref_link(refs, m.group)]
       ELSE NoMatch

\* the files that %%include can read
IncludeFiles == (<<"snippet">> :> <<"see", " ", "<bq2>", "~", "IMP", ".", "Bar", "<bq2>">>)

\* include_re, '%%include\s+([^\s)]+)', at position i, and RefLinks._include_file
include_re(s, i) ==
    LET m == word_arg(s, i, "%%include")
    IN IF m.ok THEN [ok |-> TRUE, len |-> m.len, group |-> m.group,
                     out |-> Get(IncludeFiles, m.group)]
       ELSE NoMatch

\* RefLinks.fix_links: the rewritten text, or the exception it raises
fix_links(refs, c) ==
    LET mi == [i \in 1..Len(c) |-> include_re(c, i)]
        c1 == re_sub(c, mi, 1)
        mb == [i \in 1..Len(c1) |-> backtick_link(c1, i)]
        c2 == re_sub(c1, mb, 1)
        mr == [i \in 1..Len(c2) |-> ref_link(refs, c2, i)]
    IN IF \E i \in 1..Len(c) : mi[i].ok /\ mi[i].group \notin DOMAIN IncludeFiles
       THEN [text |-> << >>, err |-> "FileNotFoundError"]
       ELSE IF \E k \in 1..Len(re_matches(c2, mr, 1)) : mr[re_matches(c2, mr, 1)[k]].out = << >>
       THEN [text |-> << >>, err |-> "ValueError: Bad @ref link"]
       ELSE [text |-> re_sub(c2, mr, 1), err |-> "none"]

\* the objects of the Python inventory that %intersphinx downloads, with
\* their locations below the URL of the inventory
Inventory == (<<"os", ".", "path">> :> <<"library/os.path.html">>)

\* RefLinks.parse_python_inventory_file
parse_python_inventory_file(refs, urltop) ==
    [k \in (DOMAIN refs) \cup (DOMAIN Inventory) |->
        IF k \in DOMAIN Inventory THEN urltop \o <<"/">> \o Inventory[k] ELSE refs[k]]

\* c.split()[1]: the second word of c, or the empty text when there is none
\* (c starts with a word)
SecondWord(c) ==
    LET w1 == SpanNotIn(c, 1, WS)
        gap == SpanIn(c, w1 + 1, WS)
    IN SubSeq(c, w1 + gap + 1, w1 + gap + SpanNotIn(c, w1 + gap + 1, WS))

\* patch_source for a line that fix_links has rewritten (f), before the
\* lines that follow it (rest)
patch_source_line(f, rest, refs) ==
    IF f.err # "none"
    THEN [source |-> << >>, refs |-> refs, err |-> f.err]
    ELSE [source |-> <<f.text>> \o rest.source, refs |-> rest.refs, err |-> rest.err]

\* patch_source: the lines it yields, the references after it and the
\* exception that ends it
RECURSIVE patch_source(_, _)
patch_source(source, refs) ==
    IF source = << >> THEN [source |-> << >>, refs |-> refs, err |-> "none"]
    ELSE IF StartsWith(Head(source), <<"%gencelloutputs">>)
    THEN patch_source(Tail(source), refs)
    ELSE IF StartsWith(Head(source), <<"%intersphinx">>)
    THEN IF SecondWord(Head(source)) = << >>
         THEN [source |-> << >>, refs |-> refs, err |-> "IndexError"]
         ELSE patch_source(Tail(source),
                           parse_python_inventory_file(refs, SecondWord(Head(source))))
    ELSE patch_source_line(fix_links(refs, Head(source)), patch_source(Tail(source), refs), refs)

\* _file_link_re, '@file\s+([^\s)]+)', at position i, replaced by '\1' + ext
_file_link_re(s, i, ext) ==
    LET m == word_arg(s, i, "@file")
    IN IF m.ok THEN [ok |-> TRUE, len |-> m.len, out |-> m.group \o <<ext>>]
       ELSE NoMatch

\* jupyter_anchor_re, '\s*\{#([^\s}]+)\}', at position i, replaced by
\* '<a id="\1"></a>'
jupyter_anchor_re(s, i) ==
    LET q == i + SpanIn(s, i, WS)
        n == SpanNotIn(s, q + 2, WS \cup {"}"})
    IN IF /\ q + 1 <= Len(s)
          /\ s[q] = "{"
          /\ s[q + 1] = "#"
          /\ n >= 1
          /\ q + 2 + n <= Len(s)
          /\ s[q + 2 + n] = "}"
       THEN [ok |-> TRUE, len |-> (q - i) + 3 + n,
             out |-> <<"<a id=\"">> \o SubSeq(s, q + 2, q + 1 + n) \o <<"\"></a>">>]
       ELSE NoMatch

\* patch_jupyter: the lines it yields for one cell
RECURSIVE patch_jupyter(_, _, _)
patch_jupyter(source, entries, is_markdown) ==
    IF source = << >> THEN << >>
    ELSE LET c == Head(source)
             nc1 == re_sub(c, [i \in 1..Len(c) |-> jupyter_anchor_re(c, i)], 1)
             nc == re_sub(nc1, [i \in 1..Len(nc1) |-> _file_link_re(nc1, i, ".ipynb")], 1)
             rest == patch_jupyter(Tail(source), entries, is_markdown)
         IN IF is_markdown
            THEN IF Contains(c, <<"[TOC]">>) THEN get_markdown(entries) \o rest
                 ELSE IF ~non_jupyter_constructs(c) THEN <<nc>> \o rest
                 ELSE rest
            ELSE IF ~non_jupyter_constructs(c) THEN <<c>> \o rest
                 ELSE rest

\* tb_sub of write_cell: Jupyter's language name to doxygen's file extension
tb_sub(lang) == IF lang = <<"python">> THEN <<"py">>
                ELSE IF lang = <<"c++">> THEN <<"cpp">>
                ELSE lang

\* _triple_backtick_re at position i: three backquotes (the token "<bq3>")
\* and '(\S+)'
_triple_backtick_re(s, i) ==
    LET n == SpanNotIn(s, i + 1, WS)
    IN IF s[i] = "<bq3>" /\ n >= 1
       THEN [ok |-> TRUE, len |-> n + 1, out |-> <<"<bq3>">> \o tb_sub(SubSeq(s, i + 1, i + n))]
       ELSE NoMatch

\* write_cell that drops the '#%%colabonly' line and goes on
RECURSIVE write_cell_lines_no_stop(_)
write_cell_lines_no_stop(source) ==
    IF source = << >> THEN [written |-> << >>, stopped |-> FALSE]
    ELSE LET s == Head(source)
             c1 == re_sub(s, [i \in 1..Len(s) |-> _file_link_re(s, i, ".html")], 1)
             contents == re_sub(c1, [i \in 1..Len(c1) |-> _triple_backtick_re(c1, i)], 1)
             rest == write_cell_lines_no_stop(Tail(source))
         IN IF ~non_jupyter_constructs(s) /\ ~StartsWith(s, <<"%matplotlib">>)
            THEN [written |-> <<contents>> \o rest.written, stopped |-> rest.stopped]
            ELSE rest

\* the loop of write_cell over the lines of the cell: what it writes, and
\* whether a '#%%colabonly' line ended it
RECURSIVE write_cell_lines(_)
write_cell_lines(source) ==
    IF source = << >> THEN [written |-> << >>, stopped |-> FALSE]
    ELSE LET s == Head(source)
             c1 == re_sub(s, [i \in 1..Len(s) |-> _file_link_re(s, i, ".html")], 1)
             contents == re_sub(c1, [i \in 1..Len(c1) |-> _triple_backtick_re(c1, i)], 1)
             rest == write_cell_lines(Tail(source))
         IN IF StartsWith(s, <<"#", "%%", "colab", "only">>)
            THEN [written |-> << >>, stopped |-> TRUE]
            ELSE IF ~non_jupyter_constructs(s) /\ ~StartsWith(s, <<"%matplotlib">>)
            THEN [written |-> <<contents>> \o rest.written, stopped |-> rest.stopped]
            ELSE rest

\* write_cell: what it writes to fh, and the list it returns
write_cell(cell) ==
    LET r == write_cell_lines(cell.source)
    IN IF r.stopped THEN [fh |-> r.written, all_contents |-> << >>]
       ELSE [fh |-> r.written \o << <<"\n">> >>, all_contents |-> r.written]

\* text written to a file, tagged with the cell it was written for (0: none)
Chunks(idx, texts) == [k \in 1..Len(texts) |-> [cell |-> idx, text |-> texts[k]]]

\* the test of get_cell_subset without the comparison with onlytype
InSubset_any_only(first, excludestr, onlytype) == ~Contains(first, excludestr)

\* the test of get_cell_subset on the first line of a cell
InSubset(first, excludestr, onlytype) ==
    /\ ~Contains(first, excludestr)
    /\ LET m == only_search(first) IN ~m.ok \/ m.group = onlytype

\* get_cell_subset: the positions of the cells it yields, in order, up to the
\* first cell without source, whose first line cannot be read (IndexError)
RECURSIVE get_cell_subset(_, _, _, _)
get_cell_subset(cells, i, excludestr, onlytype) ==
    IF i > Len(cells) THEN [idx |-> << >>, err |-> "none"]
    ELSE IF cells[i].source = << >> THEN [idx |-> << >>, err |-> "IndexError"]
    ELSE LET rest == get_cell_subset(cells, i + 1, excludestr, onlytype)
         IN IF InSubset(cells[i].source[1], excludestr, onlytype)
            THEN [idx |-> <<i>> \o rest.idx, err |-> rest.err]
            ELSE rest

get_only_html_cells(cells) == get_cell_subset(cells, 1, <<"%%", "html", "exclude">>, <<"html">>)
get_only_notebook_cells(cells) == get_cell_subset(cells, 1, <<"%%", "nb", "exclude">>, <<"nb">>)
get_only_colab_cells(cells) == get_cell_subset(cells, 1, <<"%%", "colab", "exclude">>, <<"colab">>)

\* ------------------------------------------------------------------------
\* Script writers and cell outputs
\* ------------------------------------------------------------------------
\* what exec() of the contents of a code cell does, read off its tokens:
\* "print(1)" prints a line, "plt.plot()" draws a plot, "raise" raises
ExecRaises(contents) == \E k \in 1..Len(Join(contents)) : Join(contents)[k] = "raise"
ExecPlots(contents) == \E k \in 1..Len(Join(contents)) : Join(contents)[k] = "plt.plot()"
ExecStdout(contents) == SelectSeq(Join(contents), LAMBDA t : t = "print(1)")

StreamOutput(n) == [output_type |-> "stream", text |-> [k \in 1..n |-> <<"1", "\n">>]]
PlotOutput == [output_type |-> "display_data", text |-> << >>]

\* ScriptWriter.process_contents, which does nothing
process_contents_pass(language, output, contents, cell) == cell.outputs

\* PythonScriptWriter.process_contents: the outputs of the cell after it
process_contents(language, output, contents, cell) ==
    IF language # "python" \/ ~output THEN cell.outputs
    ELSE IF ExecPlots(contents) THEN <<PlotOutput>>
    ELSE IF ExecStdout(contents) # << >> THEN <<StreamOutput(Len(ExecStdout(contents)))>>
    ELSE cell.outputs

\* the header of PythonScriptWriter for every language
write_header_python(language) == <<"#!/usr/bin/env python3", "\n", "\n">>

\* PythonScriptWriter.write_header and BashScriptWriter.write_header
write_header(language) ==
    IF language = "python" THEN <<"#!/usr/bin/env python3", "\n", "\n">>
    ELSE <<"#!/bin/sh -e", "\n", "\n">>

\* one pass of the loop of ScriptWriter.write, for the code cell i that
\* write_cell has written as w: rest is the loop over the cells after it,
\* which is not reached when process_contents raises
write_code_cell(w, i, first, runs, cells, ctx, rest) ==
    IF runs /\ ExecRaises(w.all_contents)
    THEN [fh |-> (IF first THEN << >> ELSE Chunks(0, << <<"\n">> >>)) \o Chunks(i, w.fh),
          cells |-> cells, context |-> ctx, err |-> "Exception"]
    ELSE [fh |-> (IF first THEN << >> ELSE Chunks(0, << <<"\n">> >>)) \o Chunks(i, w.fh)
                 \o rest.fh,
          cells |-> rest.cells, context |-> rest.context, err |-> rest.err]

\* the loop of ScriptWriter.write over the code cells from position i on:
\* what it writes, the cells with their outputs, the cells executed, and
\* the exception that ends it
RECURSIVE write_code_cells(_, _, _, _, _, _)
write_code_cells(cells, i, first, language, output, context) ==
    IF i > Len(cells) THEN [fh |-> << >>, cells |-> cells, context |-> context, err |-> "none"]
    ELSE IF cells[i].cell_type # "code"
    THEN write_code_cells(cells, i + 1, first, language, output, context)
    ELSE write_code_cell(
             write_cell(cells[i]), i, first, language = "python" /\ output, cells,
             IF language = "python" /\ output THEN Append(context, i) ELSE context,
             write_code_cells(
                 [cells EXCEPT ![i].outputs =
                     process_contents(language, output, write_cell(cells[i]).all_contents,
                                      cells[i])],
                 i + 1, FALSE, language, output,
                 IF language = "python" /\ output THEN Append(context, i) ELSE context))

\* CellOutputWriter.write: what it writes for the outputs of one cell, and
\* the number of images it writes
RECURSIVE output_writer_write(_, _, _)
output_writer_write(outputs, idx, counter) ==
    IF outputs = << >> THEN [fh |-> << >>, counter |-> counter]
    ELSE LET out == Head(outputs)
             n == IF out.output_type = "display_data" THEN counter + 1 ELSE counter
             here == IF out.output_type = "stream"
                     THEN << <<"<div class=\"output\">", "\n">>, <<"Output", "\n">>,
                             <<"\\verbatim", "\n">>, Join(out.text),
                             <<"\\endverbatim", "\n">>, <<"</div>", "\n">> >>
                     ELSE IF out.output_type = "display_data"
                     THEN << <<"<div class=\"output\">", "\n">>,
                             <<"<img src=\"matplotlib/">> \o FormatInt(n) \o <<".png", "\" />", "\n">>,
                             <<"</div>", "\n">> >>
                     ELSE << >>
             rest == output_writer_write(Tail(outputs), idx, n)
         IN [fh |-> Chunks(idx, here) \o rest.fh, counter |-> rest.counter]

\* the outputs of cell i in the markdown: written for a code cell with
\* outputs when outputs are generated
cell_outputs(cell, i, gen_output, counter) ==
    IF cell.cell_type = "code" /\ gen_output /\ cell.outputs # << >>
    THEN output_writer_write(cell.outputs, i, counter)
    ELSE [fh |-> << >>, counter |-> counter]

\* what the loop writes for cell i, which write_cell has written as w and
\* whose outputs are written as o
markdown_cell(cell, i, w, o) ==
    IF cell.cell_type = "markdown"
    THEN Chunks(i, w) \o Chunks(i, << <<"\n">> >>)
    ELSE IF cell.cell_type = "code"
    THEN Chunks(i, << <<"\\code{.py}", "\n">> >>) \o Chunks(i, w)
         \o Chunks(i, << <<"\\endcode", "\n">> >>) \o o.fh
    ELSE << >>

\* the loop of _generate_files that writes the doxygen markdown, over the
\* selected cells idx[k], idx[k+1], ...
RECURSIVE write_markdown(_, _, _, _, _)
write_markdown(cells, idx, k, gen_output, counter) ==
    IF k > Len(idx) THEN [fh |-> << >>, counter |-> counter]
    ELSE [fh |-> markdown_cell(cells[idx[k]], idx[k], write_cell(cells[idx[k]]).fh,
                               cell_outputs(cells[idx[k]], idx[k], gen_output, counter))
                 \o write_markdown(
                        cells, idx, k + 1, gen_output,
                        cell_outputs(cells[idx[k]], idx[k], gen_output, counter).counter).fh,
          counter |-> write_markdown(
                          cells, idx, k + 1, gen_output,
                          cell_outputs(cells[idx[k]], idx[k], gen_output, counter).counter
                      ).counter]

\* ------------------------------------------------------------------------
\* Inputs: lines, cells, templates and tag files
\* ------------------------------------------------------------------------
Marker(kind, what) == <<"%%", kind, what, "\n">>
CodeMarker(kind, what) == <<"#", "%%", kind, what, "\n">>
Kinds == {"html", "nb", "colab"}

Md(source) == [cell_type |-> "markdown", source |-> source, outputs |-> << >>]
Code(source) == [cell_type |-> "code", source |-> source, outputs |-> << >>]

TitleLine == <<"#", " ", "Title", " ", "{", "#", "intro", "}", "\n">>
TextLine == <<"some", " ", "text", "\n">>
PrintLine == <<"print(1)", "\n">>

TitleCell == Md(<<TitleLine, <<"[TOC]", "\n">> >>)
PrintCell == Code(<<PrintLine>>)
ColabPlotCell == Code(<<CodeMarker("colab", "only"), <<"plt.plot()", "\n">> >>)
\* a heading of level two and one of level one without an anchor
TwoCell ==
    Md(<< <<"#", "#", " ", "Two", " ", "{", "#", "two", "}", "\n">>,
          <<"#", " ", "Again", " ", "text", "\n">> >>)
\* a heading in a cell with the marker %%nbexclude in the middle of line 1
MidLineCell ==
    Md(<< <<"text", " ", "%%", "nb", "exclude", "\n">>, <<"#", "#", " ", "Kept", "\n">> >>)
\* a heading without an anchor in a cell that starts with %%nbexclude
HiddenCell == Md(<<Marker("nb", "exclude"), <<"#", " ", "Hidden", "\n">> >>)
\* the outputs of the code cells are wanted; the marker is on line 2
GenOutputsCell ==
    Md(<< <<"%gencelloutputs", "\n">>, Marker("nb", "exclude"),
          <<"#", "#", " ", "Hidden", "\n">> >>)
\* a heading with '@file' in its title, and the table of contents
FileTitleCell ==
    Md(<< <<"#", " ", "See", " ", "@file", " ", "foo", " ", "now", " ", "{", "#", "see", "}", "\n">>,
          <<"[TOC]", "\n">> >>)
\* a code cell that was run before the template was saved
RunCell == [cell_type |-> "code", source |-> <<PrintLine>>, outputs |-> <<StreamOutput(1)>>]

\* the cells that templates of up to MaxCells cells are built from
CoreCells ==
    { TitleCell,
      Md(<< <<"#", "#", " ", "Sub", " ", "\n">>, TextLine >>),
      Md(<< <<"#", "#", "#", " ", "Deep", " ", "{", "#", "deep", "}", "\n">> >>),
      PrintCell,
      ColabPlotCell }

\* cells that are tried alone: one marker each, links, and the odd ones
ExtraCells ==
    { Md(<<Marker(k, w), TextLine>>) : k \in Kinds, w \in {"exclude", "only"} }
    \cup { Code(<<CodeMarker(k, w), PrintLine>>) : k \in Kinds, w \in {"exclude", "only"} }
    \cup { Md(<< <<"see", " ", "<bq2>", "~", "IMP", ".", "Foo", "<bq2>", " ", "and", " ",
                   "<bq2>", "IMP", "::", "Bar", "::", "m", "<bq2>", "\n">> >>),
           Md(<< <<"<bq2>", "~", "Foo", "<bq2>", "\n">> >>),
           Md(<< <<"(", "@ref", " ", "Foo", ".", "m", ")", " ", "@ref", " ", "mainpage", "\n">> >>),
           Md(<< TextLine, <<"@ref", " ", "Nope", "\n">> >>),
           Md(<< <<"%%include", " ", "snippet", "\n">> >>),
           Md(<< <<"%%include", " ", "missing", "\n">> >>),
           Md(<< <<"%intersphinx", " ", "https://docs.python.org/3", "\n">>,
                 <<"@ref", " ", "os", ".", "path", "\n">> >>),
           Md(<< <<"%intersphinx", "\n">> >>),
           Md(<< <<"#", "\n">>, <<" ", "#", " ", "indented", "\n">>,
                 <<"#", " ", "Bad", " ", "{", "#", "an", " ", "chor", "}", "\n">> >>),
           Md(<< <<"text", " ", "%%", "nb", "exclude", "\n">> >>),
           Md(<< <<"text", " ", "%%", "colab", "only", "\n">> >>),
           Md(<< TextLine, Marker("html", "exclude"), <<"@file", " ", "other", "\n">> >>),
           Md(<< <<"<bq3>", "python", "\n">>, <<"#", " ", "comment", "\n">>, <<"<bq3>", "\n">> >>),
           Code(<< PrintLine, CodeMarker("colab", "only"), <<"more", "\n">> >>),
           Code(<< <<"%matplotlib", " ", "inline", "\n">>, <<"raise", "\n">> >>),
           Code(<< >>),
           TwoCell, GenOutputsCell, RunCell }

\* Seq(S) up to length n
RECURSIVE SeqsUpTo(_, _)
SeqsUpTo(S, n) == IF n = 0 THEN {<< >>}
                  ELSE LET P == SeqsUpTo(S, n - 1)
                       IN P \cup {Append(q, c) : q \in P, c \in S}

\* the cells of the templates that a run may find on disk
Templates ==
    SeqsUpTo(CoreCells, MaxCells)
    \cup { <<c>> : c \in ExtraCells }
    \cup { << Md(<<Marker("nb", "only"), <<"text", " ", "%%", "colab", "only", "\n">> >>),
              Md(<< <<"text", " ", "%%", "colab", "only", "\n">> >>) >>,
           <<TitleCell, TwoCell>>,
           <<TitleCell, MidLineCell>>,
           <<HiddenCell, Md(<< <<"#", " ", "Shown", "\n">> >>)>>,
           <<TitleCell, GenOutputsCell, PrintCell>>,
           <<TitleCell, GenOutputsCell, ColabPlotCell>>,
           <<TitleCell, RunCell>>,
           <<FileTitleCell, ColabPlotCell>>,
           <<PrintCell, RunCell>>,
           << Md(<< <<"%gencelloutputs", "\n">> >>), Code(<<PrintLine>>) >>,
           << Md(<< <<"%gencelloutputs", "\n">>, TextLine >>), Code(<< <<"plt.plot()", "\n">> >>) >>,
           << Md(<< <<"%gencelloutputs", "\n">>, TextLine >>),
              Code(<< <<"%matplotlib", " ", "inline", "\n">>, <<"raise", "\n">> >>) >> }

\* elements of a tag file
Member(kind, name, anchorfile, anchor) ==
    [tag |-> "member", kind |-> kind, name |-> name, anchorfile |-> anchorfile,
     anchor |-> anchor, file |-> << >>, text |-> << >>]
Docanchor(file, text) ==
    [tag |-> "docanchor", kind |-> "", name |-> << >>, anchorfile |-> << >>,
     anchor |-> << >>, file |-> file, text |-> text]
Namespace(text) ==
    [tag |-> "namespace", kind |-> "", name |-> << >>, anchorfile |-> << >>,
     anchor |-> << >>, file |-> << >>, text |-> text]
Compound(kind, name, base, filename, children) ==
    [tag |-> "compound", kind |-> kind, name |-> name, base |-> base,
     filename |-> filename, children |-> children]

FooFile == <<"class", "Foo", ".html">>
BarFile == <<"class", "Bar", ".html">>
IMPBarFile == <<"class", "IMP", "_1_1", "Bar", ".html">>

\* class Foo with a member that is filed under its base class Bar
FooInherits ==
    Compound("class", <<"Foo">>, <<"Bar">>, FooFile,
             << Member("function", <<"m">>, BarFile, <<"a1">>),
                Member("variable", <<"v">>, BarFile, <<"a9">>) >>)

\* the compounds of a derived class that the reference tag file may hold
FooCompounds ==
    { FooInherits,
      Compound("class", <<"Foo">>, <<"Bar">>, FooFile,
               << Member("function", <<"m">>, BarFile, <<"a1">>),
                  Member("function", <<"m">>, FooFile, <<"a2">>) >>),
      Compound("class", <<"Foo">>, <<"Bar">>, FooFile,
               << Member("function", <<"m">>, FooFile, <<"a2">>) >>),
      Compound("class", <<"IMP", "::", "Foo">>, <<"IMP", "::", "Bar">>,
               <<"class", "IMP", "_1_1", "Foo", ".html">>,
               << Member("function", <<"m">>, IMPBarFile, <<"a1">>) >>) }

\* the compounds of a base class, a namespace and a header file
OtherCompounds ==
    << Compound("class", <<"Bar">>, << >>, BarFile,
               << Member("function", <<"m">>, BarFile, <<"a3">>) >>),
      Compound("namespace", <<"IMP">>, << >>, <<"namespace", "IMP", ".html">>,
               << Member("function", <<"Foo">>, <<"namespace", "IMP", ".html">>, <<"a4">>) >>),
      Compound("file", <<"Foo", ".h">>, << >>, <<"Foo_8h">>,
               << Namespace(<<"IMP">>),
                  Member("typedef", <<"Foos">>, <<"namespace", "IMP", ".html">>, <<"a5">>) >>) >>

\* the manual tag file: the pages of the manual
ManualTagFile ==
    << Compound("page", <<"mainpage">>, << >>, <<"index">>,
                << Docanchor(<<"index">>, <<"intro">>) >>) >>

\* the tag files that get_tag_files may download: the manual and the reference
TagFiles ==
    { << [doctop |-> <<"https://integrativemodeling.org/doc/manual/">>, root |-> ManualTagFile],
         [doctop |-> <<"https://integrativemodeling.org/doc/ref/">>, root |-> r] >>
      : r \in { <<c>> : c \in FooCompounds \ {FooInherits} }
              \cup { <<FooInherits>> \o OtherCompounds, OtherCompounds \o <<FooInherits>> } }

\* the loop of _generate_files over the tag files
RECURSIVE parse_tags(_, _)
parse_tags(refs, tags) ==
    IF tags = << >> THEN refs
    ELSE parse_tags(parse_doxygen_tag_file(refs, Head(tags).root, Head(tags).doctop), Tail(tags))

\* ------------------------------------------------------------------------
\* The run of main()
\* ------------------------------------------------------------------------
VARIABLES
    pc,            \* the step of main() and _generate_files that comes next
    nroots,        \* len(args.filename)
    tags,          \* the tag files of get_tag_files
    file_counter,  \* FileGenerator._file_counter
    refs,          \* RefLinks.refs of the template being generated
    toc,           \* the TableOfContents of the template: _auto_toc, entries
    language,      \* the kernel language of the template
    template,      \* the cells of the template file on disk
    cells,         \* j['cells'] as loaded, each cell changed in place
    ci,            \* position of the loop over the cells (custom magics)
    gen_output,    \* gen_output of _generate_files
    context,       \* the cells executed in PythonScriptWriter._context, in order
    counter,       \* CellOutputWriter.counter
    nb_cells,      \* nb_cells of _generate_files, as positions in cells
    colab_cells,   \* colab_cells of _generate_files, as positions in cells
    out,           \* the files written for the template being generated
    written,       \* the files written in this run: <<number of the root, kind>>
    err            \* the exception that ended the run

NoFile == [exists |-> FALSE, content |-> << >>, mode |-> ""]

\* the state of the documentation steps, of both programs
VARIABLES
    script,        \* the program that runs: make-docs.py or process_notebook.py
    branch,        \* branch of main()
    metadata,      \* the lines of metadata.yaml, or "missing"
    dump,          \* the lines that 'doxygen -s -g -' has printed
    dump_status,   \* the exit status of 'doxygen -s -g -', NoStatus before it has run
    doxyfile,      \* the file Doxyfile
    md_files,      \* the files *.md of the doc directory: name -> lines
    license,       \* the text of the file LICENSE, or "missing"
    html,          \* the files html/*.html: name -> what was written to it
    menudata,      \* the text of html/menudata.js
    calls,         \* the functions that main() has called, in order
    returncode     \* the exit status of the program, NoStatus while it runs

docvars == <<script, branch, metadata, dump, dump_status, doxyfile, md_files, license, html,
             menudata, calls, returncode>>

\* the state of the cache of downloaded files and of the runs that use it
VARIABLES
    runs,          \* for each run: the step that comes next, the tag file, the exception
    cache_dir,     \* the directory CACHE exists
    local_files,   \* the local tag files: which halves are written, and the mtime
    now            \* time.time()

cachevars == <<runs, cache_dir, local_files, now>>

\* no run uses the cache
CacheIdle ==
    /\ runs = << >>
    /\ cache_dir = FALSE
    /\ local_files = << >>
    /\ now = 0

\* the state of showall.py
VARIABLES
    jsonglob,      \* the pattern that print_tutorial_list is called with
    jsons,         \* the directories that glob has found, in its order, each
                   \* with its metadata.yaml
    pth,           \* the place in jsons of the loop of print_tutorial_list
    tutorials,     \* the list ts of print_tutorial_list
    printed        \* the lines printed

idxvars == <<jsonglob, jsons, pth, tutorials, printed>>

\* showall.py is not run
IdxIdle ==
    /\ jsonglob = ""
    /\ jsons = << >>
    /\ pth = 1
    /\ tutorials = << >>
    /\ printed = << >>

\* the exit status of a process that has not ended
NoStatus == -1

\* the state of _generate_files and of its callers
genvars == <<nroots, tags, file_counter, refs, toc, language, template, cells, ci, gen_output,
             context, counter, nb_cells, colab_cells, out, written>>

vars == <<pc, genvars, err, docvars, cachevars, idxvars>>

\* the documentation steps have not run
DocsIdle ==
    /\ script = "process_notebook.py"
    /\ branch = "main"
    /\ metadata = "missing"
    /\ dump = << >>
    /\ dump_status = NoStatus
    /\ doxyfile = NoFile
    /\ md_files = << >>
    /\ license = "missing"
    /\ html = << >>
    /\ menudata = << >>
    /\ calls = << >>
    /\ returncode = NoStatus

NoFiles == [md |-> NoFile, script |-> NoFile, ipynb |-> NoFile, colab |-> NoFile]
File(content, mode) == [exists |-> TRUE, content |-> content, mode |-> mode]

Init ==
    /\ pc = "main"
    /\ nroots \in 1..MaxRoots
    /\ tags \in TagFiles
    /\ file_counter = 0
    /\ refs = << >>
    /\ toc = [auto_toc |-> 0, entries |-> << >>]
    /\ language = "python"
    /\ template = << >>
    /\ cells = << >>
    /\ ci = 1
    /\ gen_output = FALSE
    /\ context = << >>
    /\ counter = 0
    /\ nb_cells = << >>
    /\ colab_cells = << >>
    /\ out = NoFiles
    /\ written = {}
    /\ err = "none"
    /\ DocsIdle
    /\ CacheIdle
    /\ IdxIdle

Fail(e) == pc' = "failed" /\ err' = e

\* main, up to the loop over args.filename
Main ==
    /\ pc = "main"
    /\ pc' = "generate"
    /\ UNCHANGED <<nroots, tags, file_counter, refs, toc, language, template, cells, ci, gen_output,
                   context, counter, nb_cells, colab_cells, out, written, err>>
    /\ UNCHANGED docvars
    /\ UNCHANGED <<cachevars, idxvars>>

\* a check of the first cell only
has_outputs_first(t) == t # << >> /\ t[1].outputs # << >>

\* the check of _generate_files that all outputs are empty
has_outputs(t) == \E i \in 1..Len(t) : t[i].outputs # << >>

\* FileGenerator.generate_files and _generate_files up to the loop over
\* the cells: the tag files are parsed, the template is read and its cells
\* are checked for outputs
LoadTemplate ==
    /\ pc = "generate"
    /\ file_counter < nroots
    /\ \E t \in Templates, l \in {"python", "bash"} :
         /\ file_counter' = file_counter + 1
         /\ refs' = parse_tags(<< >>, tags)
         /\ toc' = [auto_toc |-> 0, entries |-> << >>]
         /\ template' = t
         /\ cells' = t
         /\ language' = l
         /\ IF has_outputs(t)
            THEN Fail("ValueError: Please clear all cell outputs first!")
            ELSE /\ pc' = IF t = << >> THEN "script" ELSE "cells"
                 /\ err' = err
    /\ ci' = 1
    /\ gen_output' = FALSE
    /\ context' = << >>
    /\ nb_cells' = << >>
    /\ colab_cells' = << >>
    /\ out' = NoFiles
    /\ UNCHANGED <<nroots, tags, counter, written>>
    /\ UNCHANGED docvars
    /\ UNCHANGED <<cachevars, idxvars>>

\* one pass of the loop of _generate_files that handles the custom magics
\* and @ref links of a cell
ProcessCell ==
    /\ pc = "cells"
    /\ \E a \in {add_missing_anchors(cells[ci].source, file_counter, toc.auto_toc)} :
       \E p \in {parse_cell(toc.entries, a.source)} :
       \E s \in {patch_source(a.source, refs)} :
       \E g \in {gen_output \/ \E k \in 1..Len(a.source) :
                                  StartsWith(a.source[k], <<"%gencelloutputs">>)} :
       \E next \in {IF ci = Len(cells) THEN "script" ELSE "cells"} :
          IF cells[ci].cell_type # "markdown"
          THEN /\ pc' = next
               /\ UNCHANGED <<cells, toc, gen_output, refs, err>>
          ELSE IF p.err # "none"
          THEN /\ Fail(p.err)
               /\ cells' = [cells EXCEPT ![ci].source = a.source]
               /\ toc' = [auto_toc |-> a.auto_toc, entries |-> p.entries]
               /\ UNCHANGED <<gen_output, refs>>
          ELSE IF s.err # "none"
          THEN /\ Fail(s.err)
               /\ cells' = [cells EXCEPT ![ci].source = a.source]
               /\ toc' = [auto_toc |-> a.auto_toc, entries |-> p.entries]
               /\ gen_output' = g
               /\ refs' = s.refs
          ELSE /\ pc' = next
               /\ cells' = [cells EXCEPT ![ci].source = s.source]
               /\ toc' = [auto_toc |-> a.auto_toc, entries |-> p.entries]
               /\ gen_output' = g
               /\ refs' = s.refs
               /\ err' = err
    /\ ci' = ci + 1
    /\ UNCHANGED <<nroots, tags, file_counter, language, template, context, counter, nb_cells,
                   colab_cells, out, written>>
    /\ UNCHANGED docvars
    /\ UNCHANGED <<cachevars, idxvars>>

\* ScriptWriter.write: the plain Python or Bash script
WriteScript ==
    /\ pc = "script"
    /\ \E w \in {write_code_cells(cells, 1, TRUE, language, gen_output, << >>)} :
       \E header \in {Chunks(0, <<write_header(language)>>)} :
          IF \A i \in 1..Len(cells) : cells[i].cell_type # "code"
          THEN /\ pc' = "markdown"
               /\ UNCHANGED <<cells, context, out, written, err>>
          ELSE /\ cells' = w.cells
               /\ context' = w.context
               /\ written' = written \cup {<<file_counter, "script">>}
               /\ IF w.err # "none"
                  THEN /\ Fail(w.err)
                       /\ out' = [out EXCEPT !.script = File(header \o w.fh, "0644")]
                  ELSE /\ pc' = "markdown"
                       /\ out' = [out EXCEPT !.script = File(header \o w.fh, "0755")]
                       /\ err' = err
    /\ UNCHANGED <<nroots, tags, file_counter, refs, toc, language, template, ci, gen_output,
                   counter, nb_cells, colab_cells>>
    /\ UNCHANGED docvars
    /\ UNCHANGED <<cachevars, idxvars>>

\* the markdown for doxygen
WriteMarkdown ==
    /\ pc = "markdown"
    /\ \E sel \in {get_only_html_cells(cells)} :
       \E w \in {write_markdown(cells, sel.idx, 1, gen_output, counter)} :
          /\ out' = [out EXCEPT !.md = File(w.fh, "0644")]
          /\ counter' = w.counter
          /\ written' = written \cup {<<file_counter, "md">>}
                        \cup (IF w.counter > counter THEN {<<file_counter, "png">>} ELSE {})
          /\ IF sel.err # "none" THEN Fail(sel.err)
             ELSE pc' = "notebook" /\ err' = err
    /\ UNCHANGED <<nroots, tags, file_counter, refs, toc, language, template, cells, ci, gen_output,
                   context, nb_cells, colab_cells>>
    /\ UNCHANGED docvars
    /\ UNCHANGED <<cachevars, idxvars>>

\* write_jupyter of _generate_files: the cells at the positions idx are
\* patched in place
RECURSIVE patch_cells(_, _, _, _)
patch_cells(cs, idx, k, entries) ==
    IF k > Len(idx) THEN cs
    ELSE patch_cells([cs EXCEPT ![idx[k]].source =
                         patch_jupyter(cs[idx[k]].source, entries,
                                       cs[idx[k]].cell_type = "markdown")],
                     idx, k + 1, entries)

\* the cells of a notebook file, each with its position in the template
Notebook(cs, idx) == [k \in 1..Len(idx) |-> [cell |-> idx[k], json |-> cs[idx[k]]]]

\* the cells for the two notebooks are selected and the standard notebook
\* is written
WriteNotebook ==
    /\ pc = "notebook"
    /\ \E nb \in {get_only_notebook_cells(cells)} :
       \E colab \in {get_only_colab_cells(cells)} :
       \E patched \in {patch_cells(cells, nb.idx, 1, toc.entries)} :
          IF nb.err # "none" \/ colab.err # "none"
          THEN /\ Fail("IndexError")
               /\ UNCHANGED <<cells, nb_cells, colab_cells, out, written>>
          ELSE /\ nb_cells' = nb.idx
               /\ colab_cells' = colab.idx
               /\ cells' = patched
               /\ out' = [out EXCEPT !.ipynb = File(Notebook(patched, nb.idx), "0644")]
               /\ written' = written \cup {<<file_counter, "ipynb">>}
               /\ pc' = "colab"
               /\ err' = err
    /\ UNCHANGED <<nroots, tags, file_counter, refs, toc, language, template, ci, gen_output,
                   context, counter>>
    /\ UNCHANGED docvars
    /\ UNCHANGED <<cachevars, idxvars>>

\* colab_cells != nb_cells: the two lists are compared cell by cell, by value
CellsDiffer(cs, a, b) == [k \in 1..Len(a) |-> cs[a[k]]] # [k \in 1..Len(b) |-> cs[b[k]]]

\* the colab notebook is written if its cells differ from the standard ones
WriteColab ==
    /\ pc = "colab"
    /\ \E patched \in {patch_cells(cells, colab_cells, 1, toc.entries)} :
          IF CellsDiffer(cells, colab_cells, nb_cells)
          THEN /\ cells' = patched
               /\ out' = [out EXCEPT !.colab = File(Notebook(patched, colab_cells), "0644")]
               /\ written' = written \cup {<<file_counter, "colab">>}
          ELSE UNCHANGED <<cells, out, written>>
    /\ pc' = "return"
    /\ UNCHANGED <<nroots, tags, file_counter, refs, toc, language, template, ci, gen_output,
                   context, counter, nb_cells, colab_cells, err>>
    /\ UNCHANGED docvars
    /\ UNCHANGED <<cachevars, idxvars>>

\* _generate_files returns to the loop of main over args.filename: its
\* local variables are gone, the files it has written stay
Return ==
    /\ pc = "return"
    /\ pc' = "generate"
    /\ refs' = << >>
    /\ toc' = [auto_toc |-> 0, entries |-> << >>]
    /\ language' = "python"
    /\ template' = << >>
    /\ cells' = << >>
    /\ ci' = 1
    /\ gen_output' = FALSE
    /\ context' = << >>
    /\ nb_cells' = << >>
    /\ colab_cells' = << >>
    /\ out' = NoFiles
    /\ UNCHANGED <<nroots, tags, file_counter, counter, written, err>>
    /\ UNCHANGED docvars
    /\ UNCHANGED <<cachevars, idxvars>>

\* make_doxyfile: the Doxyfile is written from the output of doxygen, whose
\* exit status is looked at afterwards
MakeDoxyfile ==
    /\ pc = "generate"
    /\ file_counter = nroots
    /\ written' = written \cup {<<0, "Doxyfile">>}
    /\ \E ret \in {0, 1} :
         IF ret # 0 THEN Fail("OSError: doxygen failed")
         ELSE pc' = "run_doxygen" /\ err' = err
    /\ UNCHANGED <<nroots, tags, file_counter, refs, toc, language, template, cells, ci, gen_output,
                   context, counter, nb_cells, colab_cells, out>>
    /\ UNCHANGED docvars
    /\ UNCHANGED <<cachevars, idxvars>>

\* run_doxygen
RunDoxygen ==
    /\ pc = "run_doxygen"
    /\ \E ret \in {0, 1} :
         IF ret # 0 THEN Fail("CalledProcessError") /\ written' = written
         ELSE /\ pc' = "add_html_links"
              /\ err' = err
              /\ written' = written \cup {<<0, "html">>}
    /\ UNCHANGED <<nroots, tags, file_counter, refs, toc, language, template, cells, ci, gen_output,
                   context, counter, nb_cells, colab_cells, out>>
    /\ UNCHANGED docvars
    /\ UNCHANGED <<cachevars, idxvars>>

\* add_html_links and fix_menu_links
AddHtmlLinks ==
    /\ pc = "add_html_links"
    /\ pc' = "done"
    /\ written' = written \cup {<<0, "patched html">>}
    /\ UNCHANGED <<nroots, tags, file_counter, refs, toc, language, template, cells, ci, gen_output,
                   context, counter, nb_cells, colab_cells, out, err>>
    /\ UNCHANGED docvars
    /\ UNCHANGED <<cachevars, idxvars>>

Next ==
    \/ Main
    \/ LoadTemplate
    \/ ProcessCell
    \/ WriteScript
    \/ WriteMarkdown
    \/ WriteNotebook
    \/ WriteColab
    \/ Return
    \/ MakeDoxyfile
    \/ RunDoxygen
    \/ AddHtmlLinks

Spec == Init /\ [][Next]_vars

\* ------------------------------------------------------------------------
\* Properties
\* ------------------------------------------------------------------------
\* the nesting rule of the table of contents
NestingOK(e) ==
    /\ e = << >> \/ e[1].level = 1
    /\ \A k \in 2..Len(e) : e[k].level <= e[k - 1].level + 1

\* the headings that the step ProcessCell hands to parse_cell
HeadingsOfCell ==
    get_sections(add_missing_anchors(cells[ci].source, file_counter, toc.auto_toc).source)

NestingError == {"ValueError: heading cannot follow",
                 "ValueError: top-level section is not level one"}

\* C1: the entries of the table of contents always satisfy the nesting rule
\* (empty or first entry of level 1, each later entry at most one level
\* deeper than the one before it); when a cell is parsed its headings are
\* appended in order up to the first one that would break the rule, which
\* raises ValueError and is not appended
C1_TocNesting ==
    [][ /\ NestingOK(toc'.entries)
        /\ (/\ pc = "cells"
            /\ cells[ci].cell_type = "markdown"
            /\ ~Contains(cells[ci].source[1], <<"%%", "nb", "exclude">>))
           => \E h \in {HeadingsOfCell} :
              \E n \in {Len(toc'.entries) - Len(toc.entries)} :
                 /\ n \in 0..Len(h)
                 /\ toc'.entries = toc.entries \o SubSeq(h, 1, n)
                 /\ n < Len(h)
                    => /\ ~NestingOK(Append(toc.entries \o SubSeq(h, 1, n), h[n + 1]))
                       /\ pc' = "failed"
                       /\ err' \in NestingError
                 /\ n = Len(h) => err' \notin NestingError ]_vars

\* a level-3 heading directly after a level-1 heading has raised ValueError
C1_Witness ==
    /\ pc = "failed"
    /\ err = "ValueError: heading cannot follow"
    /\ Len(toc.entries) = 1
    /\ toc.entries[1].level = 1
    /\ \E k \in 1..Len(cells[ci - 1].source) :
          anchor_re(cells[ci - 1].source[k]).ok /\ anchor_re(cells[ci - 1].source[k]).level = 3

\* the check of _generate_files that no cell of the template has outputs
PleaseClear == "ValueError: Please clear all cell outputs first!"

\* C2 as stated: when the run aborts because a cell carries outputs, no
\* file of any template has been written
C2_NoWriteAtAll == err = PleaseClear => written = {}

\* C2: a template with a cell that carries outputs never gets past its load,
\* and when the run aborts for it no file of that template or of a later one
\* has been written, nor the Doxyfile or the HTML; the files of the
\* templates before it have been written
C2_NoWriteForTemplate ==
    /\ pc \in {"cells", "script"} => \A i \in 1..Len(cells) : cells[i].outputs = << >>
    /\ err = PleaseClear
       => /\ pc = "failed"
          /\ \E i \in 1..Len(cells) : cells[i].outputs # << >>
          /\ out = NoFiles
          /\ \A w \in written : w[1] \in 1..(file_counter - 1)
          /\ \A r \in 1..(file_counter - 1) : <<r, "md">> \in written /\ <<r, "ipynb">> \in written

\* the run has aborted on the second template, after the first was written
C2_Witness ==
    /\ err = PleaseClear
    /\ file_counter = 2
    /\ <<1, "script">> \in written

\* the template of the current root has been generated
Done == pc = "return"

\* the cell at position i of the template was written to the file
InFile(f, i) == \E k \in 1..Len(f.content) : f.content[k].cell = i
InMd(i) == InFile(out.md, i)
InScript(i) == InFile(out.script, i)
InNb(i) == InFile(out.ipynb, i)
InColab(i) == InFile(out.colab, i)

\* the cell carries the marker %%<kind><what>: its first line starts with
\* it, after an optional '#', and the cell has no other marker
Carries(cell, kind, what) ==
    /\ cell.source # << >>
    /\ cell.source[1] # << >>
    /\ LET f == cell.source[1]
           k == IF f[1] = "#" THEN 1 ELSE 0
       IN /\ Len(f) >= k + 3
          /\ f[k + 1] = "%%" /\ f[k + 2] = kind /\ f[k + 3] = what
          /\ \A l \in 1..Len(cell.source) : \A q \in 1..Len(cell.source[l]) :
                cell.source[l][q] = "%%" => l = 1 /\ q = k + 1

IsCode(i) == template[i].cell_type = "code"
ColabOnlyCode(i) ==
    /\ IsCode(i)
    /\ template[i].source # << >>
    /\ StartsWith(template[i].source[1], <<"#", "%%", "colab", "only">>)

HasMarker(cell) ==
    \E l \in 1..Len(cell.source) : \E q \in 1..(Len(cell.source[l]) - 2) :
        /\ cell.source[l][q] = "%%"
        /\ cell.source[l][q + 1] \in Kinds
        /\ cell.source[l][q + 2] \in {"exclude", "only"}

\* the source of the cell at position i of the template in a notebook file
SourceIn(f, i) == f.content[CHOOSE k \in 1..Len(f.content) : f.content[k].cell = i].json.source

\* C4: a marker that is not at the start of the first line of its cell has
\* no effect: the cell is emitted to the markdown, the notebook and (a code
\* cell) the script, and no line of a code cell is removed
C4_MarkersOnlyAtStart ==
    Done => \A i \in 1..Len(template) :
        (/\ HasMarker(template[i])
         /\ ~non_jupyter_constructs(template[i].source[1]))
        => /\ InMd(i)
           /\ InNb(i)
           /\ IsCode(i) => InScript(i) /\ SourceIn(out.ipynb, i) = template[i].source

C6_ColabIffSelectionDiffers == Done => (out.colab.exists <=> colab_cells # nb_cells)

\* the text in which fix_links looks for '@ref <token>', and the tokens found
RefText(c) == re_sub(c, [i \in 1..Len(c) |-> backtick_link(c, i)], 1)
RefMatches(t) == re_matches(t, [i \in 1..Len(t) |-> word_arg(t, i, "@ref")], 1)
RefTokens(c) == {word_arg(RefText(c), RefMatches(RefText(c))[k], "@ref").group
                    : k \in 1..Len(RefMatches(RefText(c)))}
Dotted(tok) == Replace(tok, ".", <<"::">>)
Resolves(tok) == tok \in DOMAIN refs \/ Dotted(tok) \in DOMAIN refs
UrlOf(tok) == IF tok \in DOMAIN refs THEN refs[tok] ELSE refs[Dotted(tok)]
\* the line with each '@ref <token>' replaced by the URL of the token
Resolved(c) ==
    re_sub(RefText(c),
           [i \in 1..Len(RefText(c)) |->
               IF word_arg(RefText(c), i, "@ref").ok
               THEN [ok |-> TRUE, len |-> word_arg(RefText(c), i, "@ref").len,
                     out |-> UrlOf(word_arg(RefText(c), i, "@ref").group)]
               ELSE NoMatch], 1)
\* the lines of the cell that ProcessCell hands to fix_links
LinkLines ==
    SelectSeq(add_missing_anchors(cells[ci].source, file_counter, toc.auto_toc).source,
              LAMBDA c : ~StartsWith(c, <<"%gencelloutputs">>))
\* a markdown cell without %%include and %intersphinx
PlainLinkCell(cell) ==
    /\ cell.cell_type = "markdown"
    /\ \A l \in 1..Len(cell.source) : \A q \in 1..Len(cell.source[l]) :
          cell.source[l][q] \notin {"%%include", "%intersphinx"}

\* C7: each '@ref <token>' of a markdown cell is looked up as written and then
\* with each '.' replaced by '::'; when every token of the cell is found by
\* one of the two, each '@ref <token>' is replaced by the URL and none is
\* left, and when a token is found by neither, ValueError ('Bad @ref link')
\* is raised and nothing is written for the template
C7_RefLinks ==
    [][ (/\ pc = "cells"
         /\ PlainLinkCell(cells[ci])
         /\ err' \notin NestingError)
        => IF \A k \in 1..Len(LinkLines) : \A tok \in RefTokens(LinkLines[k]) : Resolves(tok)
           THEN /\ err' = "none"
                /\ cells'[ci].source = [k \in 1..Len(LinkLines) |-> Resolved(LinkLines[k])]
                /\ \A k \in 1..Len(cells'[ci].source) :
                      RefMatches(cells'[ci].source[k]) = << >>
           ELSE /\ err' = "ValueError: Bad @ref link"
                /\ pc' = "failed"
                /\ out' = NoFiles
                /\ \A w \in written' : w[1] # file_counter ]_vars

\* '@ref Foo.m' has been replaced by the URL registered for Foo::m
C7_Witness ==
    /\ pc = "script"
    /\ \E i \in 1..Len(cells) :
          /\ Len(template[i].source) >= 1
          /\ Len(cells[i].source) >= 1
          /\ Contains(template[i].source[1], <<"@ref", " ", "Foo", ".", "m">>)
          /\ <<"Foo", "::", "m">> \in DOMAIN refs
          /\ Contains(cells[i].source[1], refs[<<"Foo", "::", "m">>])
          /\ RefMatches(cells[i].source[1]) = << >>

\* '[display](@ref target)'
LinkForm(display, target) ==
    <<"[">> \o display \o <<"]", "(", "@ref", " ">> \o target \o <<")">>
\* the part of a name after its last '.' or '::'
LastComponent(T) ==
    LET P == {i \in 1..Len(T) : T[i] \in {".", "::"}}
    IN IF P = {} THEN T ELSE SubSeq(T, Max(P) + 1, Len(T))
\* the double-backquoted tokens of the template: cell, line, position
BacktickPlaces ==
    UNION { UNION { { <<i, l, q>> : q \in {q \in 1..Len(template[i].source[l]) :
                                              backtick_link(template[i].source[l], q).ok} }
                    : l \in 1..Len(template[i].source) }
            : i \in 1..Len(template) }
BacktickAt(x) == backtick_link(template[x[1]].source[x[2]], x[3])

MemberKeys(c, m) ==
    IF c.kind \in {"class", "namespace"} /\ m.tag = "member" /\ m.kind = "function"
    THEN {c.name \o <<"::">> \o m.name}
         \cup (IF c.base # << >>
                  /\ EndsWith(m.anchorfile, Replace(c.base, "::", <<"_1_1">>) \o <<".html">>)
               THEN {c.base \o <<"::">> \o m.name} ELSE {})
    ELSE {}
\* the keys that a compound registers
CompoundKeys(c) ==
    LET ch == {c.children[k] : k \in 1..Len(c.children)}
    IN IF c.kind \in {"class", "namespace"}
       THEN {c.name} \cup UNION {MemberKeys(c, m) : m \in ch}
       ELSE IF c.kind = "page"
       THEN {c.name} \cup {m.text : m \in {x \in ch : x.tag = "docanchor"}}
       ELSE {n.text \o <<"::">> \o m.name : n \in {x \in ch : x.tag = "namespace"},
                                             m \in {x \in ch : x.tag = "member"}}
            \cup {<<"IMP/">> \o c.name}
\* the function members of the class compounds with a base class: tag file,
\* compound, member
InheritedPlaces ==
    UNION { UNION { { <<t, c, m>> : m \in {m \in 1..Len(tags[t].root[c].children) :
                                              /\ tags[t].root[c].kind = "class"
                                              /\ tags[t].root[c].base # << >>
                                              /\ tags[t].root[c].children[m].tag = "member"
                                              /\ tags[t].root[c].children[m].kind = "function"} }
                    : c \in 1..Len(tags[t].root) }
            : t \in 1..Len(tags) }
CompoundAt(x) == tags[x[1]].root[x[2]]
MemberAt(x) == CompoundAt(x).children[x[3]]
DerivedKey(x) == CompoundAt(x).name \o <<"::">> \o MemberAt(x).name
BaseKey(x) == CompoundAt(x).base \o <<"::">> \o MemberAt(x).name
InBaseFile(x) ==
    EndsWith(MemberAt(x).anchorfile,
             Replace(CompoundAt(x).base, "::", <<"_1_1">>) \o <<".html">>)
MemberUrl(x) == tags[x[1]].doctop \o MemberAt(x).anchorfile \o <<"#">> \o MemberAt(x).anchor
\* the key is registered again after the member at x
WrittenLater(key, x) ==
    \/ \E k \in (x[3] + 1)..Len(CompoundAt(x).children) :
          key \in MemberKeys(CompoundAt(x), CompoundAt(x).children[k])
    \/ \E k \in (x[2] + 1)..Len(tags[x[1]].root) : key \in CompoundKeys(tags[x[1]].root[k])
    \/ \E t \in (x[1] + 1)..Len(tags) : \E k \in 1..Len(tags[t].root) :
          key \in CompoundKeys(tags[t].root[k])
\* the key is registered before the member at x
WrittenEarlier(key, x) ==
    \/ \E k \in 1..(x[3] - 1) : key \in MemberKeys(CompoundAt(x), CompoundAt(x).children[k])
    \/ key = CompoundAt(x).name
    \/ \E k \in 1..(x[2] - 1) : key \in CompoundKeys(tags[x[1]].root[k])
    \/ \E t \in 1..(x[1] - 1) : \E k \in 1..Len(tags[t].root) :
          key \in CompoundKeys(tags[t].root[k])

\* the tag files have been parsed for the template being generated
Parsed == pc \in {"cells", "script", "markdown", "notebook", "colab", "return"}

\* C9 as stated: after the tag files are parsed, a member of Foo that is
\* filed under its base class Bar resolves to the same URL as Foo::m and as
\* Bar::m
C9_SameUrlAfterParsing ==
    Parsed =>
        \A x \in InheritedPlaces :
            InBaseFile(x) => /\ DerivedKey(x) \in DOMAIN refs
                             /\ BaseKey(x) \in DOMAIN refs
                             /\ refs[DerivedKey(x)] = refs[BaseKey(x)]

\* C9: a function member m of class Foo with base class Bar whose anchor file
\* ends with Bar's file name is registered as Foo::m and as Bar::m with the
\* same URL, and both resolve to it after parsing unless a later entry of the
\* tag files registers Foo::m or Bar::m again; a member whose anchor file
\* does not end with Bar's file name registers no Bar::m
C9_InheritedMember ==
    Parsed =>
        \A x \in InheritedPlaces :
            /\ (InBaseFile(x) /\ ~WrittenLater(DerivedKey(x), x) /\ ~WrittenLater(BaseKey(x), x))
               => /\ Get(refs, DerivedKey(x)) = MemberUrl(x)
                  /\ Get(refs, BaseKey(x)) = MemberUrl(x)
            /\ (/\ ~InBaseFile(x)
                /\ ~WrittenLater(BaseKey(x), x)
                /\ ~WrittenEarlier(BaseKey(x), x))
               => BaseKey(x) \notin DOMAIN refs

\* Foo::m and Bar::m resolve to the URL of the member filed under Bar
C9_Witness ==
    /\ Parsed
    /\ \E x \in InheritedPlaces :
          /\ InBaseFile(x)
          /\ BaseKey(x) = <<"Bar", "::", "m">>
          /\ Get(refs, <<"Foo", "::", "m">>) = MemberUrl(x)
          /\ Get(refs, <<"Bar", "::", "m">>) = MemberUrl(x)

\* C10: add_missing_anchors keeps the number of lines; a heading line
\* without an anchor is rewritten to a line that parses as an anchored
\* heading of the same level and title with a synthetic anchor; every other
\* line is passed through unchanged
C10_MissingAnchors ==
    (pc = "cells" /\ cells[ci].cell_type = "markdown") =>
        \A new \in {add_missing_anchors(cells[ci].source, file_counter, toc.auto_toc).source} :
           /\ Len(new) = Len(cells[ci].source)
           /\ \A k \in 1..Len(cells[ci].source) :
              \A a \in {anchor_re(cells[ci].source[k])} :
              \A n \in {noanchor_re(cells[ci].source[k])} :
                 IF ~a.ok /\ n.ok
                 THEN \A r \in {anchor_re(new[k])} :
                         /\ r.ok
                         /\ r.level = n.level
                         /\ r.title = n.title
                         /\ r.anchor[1] = "autotoc"
                 ELSE new[k] = cells[ci].source[k]

\* a heading without an anchor has got a synthetic one and is an entry of
\* the table of contents with its title
C10_Witness ==
    /\ toc.auto_toc >= 1
    /\ \E k \in 1..Len(toc.entries) :
          /\ toc.entries[k].anchor[1] = "autotoc"
          /\ toc.entries[k].title = <<"Sub">>
          /\ toc.entries[k].level = 2

\* a markdown cell that is flagged as excluded from the notebook: its first
\* line holds the marker %%nbexclude (the test of parse_cell, which finds
\* the marker at the start of the line and after it)
NbExcluded(cell) ==
    /\ cell.cell_type = "markdown"
    /\ cell.source # << >>
    /\ Contains(cell.source[1], <<"%%", "nb", "exclude">>)

\* the heading that a line of a markdown cell is: the match of anchor_re,
\* or else that of noanchor_re
HeadingOf(s) == IF anchor_re(s).ok THEN anchor_re(s) ELSE noanchor_re(s)

\* the headings of the markdown cells of a template from line k of cell i
\* on, in document order, each with the number of its cell and with its
\* anchor: the one it carries or the n-th synthetic one of the file
RECURSIVE HeadingsFrom(_, _, _, _, _)
HeadingsFrom(tmpl, i, k, filenum, n) ==
    IF i > Len(tmpl) THEN << >>
    ELSE IF tmpl[i].cell_type # "markdown" \/ k > Len(tmpl[i].source)
    THEN HeadingsFrom(tmpl, i + 1, 1, filenum, n)
    ELSE LET h == HeadingOf(tmpl[i].source[k])
             auto == h.ok /\ ~anchor_re(tmpl[i].source[k]).ok
             cnt == IF auto THEN n + 1 ELSE n
         IN (IF h.ok
             THEN <<[cell |-> i, level |-> h.level, title |-> h.title,
                     anchor |-> IF auto THEN AutoAnchor(filenum, cnt) ELSE h.anchor]>>
             ELSE << >>)
            \o HeadingsFrom(tmpl, i, k + 1, filenum, cnt)

\* the entries of the headings whose cell is not marked %%nbexclude
RECURSIVE ListedEntries(_, _)
ListedEntries(tmpl, hs) ==
    IF hs = << >> THEN << >>
    ELSE (IF NbExcluded(tmpl[Head(hs).cell]) THEN << >>
          ELSE <<[level |-> Head(hs).level, title |-> Head(hs).title,
                  anchor |-> Head(hs).anchor]>>)
         \o ListedEntries(tmpl, Tail(hs))

\* the anchors of a sequence of headings
Anchors(hs) == [k \in 1..Len(hs) |-> hs[k].anchor]

\* the loop of _generate_files over the cells has ended without an exception
CellsProcessed == pc \in {"script", "markdown", "notebook", "colab", "return"}

FileText(f) == Join([k \in 1..Len(f.content) |-> f.content[k].text])

\* the source of the cell of a notebook file that was cell i of the template
NotebookSource(f, i) ==
    LET P == {k \in 1..Len(f.content) : f.content[k].cell = i}
    IN IF P = {} THEN << >> ELSE f.content[Min(P)].json.source

\* the template of two cells: a title with the anchor intro and [TOC], and
\* the code print(1), for the Python kernel
TwoCellTemplate == template = <<TitleCell, PrintCell>> /\ language = "python"

\* C12: for the template of a markdown cell '# Title {#intro}', '[TOC]' and
\* a code cell 'print(1)' with the Python kernel, the script is the line
\* '#!/usr/bin/env python3', an empty line and 'print(1)'; the markdown
\* file holds 'print(1)' between the lines '\code{.py}' and '\endcode'; and
\* the markdown cell of the notebook has no '[TOC]' but, where it was, the
\* heading of the table, an empty line and the indented bullet
\* ' - [Title](#intro)'
C12_TwoCellTemplate ==
    (TwoCellTemplate /\ pc \in {"colab", "return"}) =>
        /\ out.script.exists
        /\ FileText(out.script) = <<"#!/usr/bin/env python3", "\n", "\n", "print(1)", "\n", "\n">>
        /\ out.md.exists
        /\ Contains(FileText(out.md),
                    <<"\\code{.py}", "\n", "print(1)", "\n", "\n", "\\endcode", "\n">>)
        /\ out.ipynb.exists
        /\ Len(out.ipynb.content) = 2
        /\ \A src \in {NotebookSource(out.ipynb, 1)} :
              /\ Len(src) = 4
              /\ \A k \in 1..Len(src) : ~Contains(src[k], <<"[TOC]">>)
              /\ src[2] = <<"**Table of contents**", "\n">>
              /\ src[3] = <<"\n">>
              /\ src[4] = <<" ", "-", " ", "[", "Title", "]", "(", "#", "intro", ")", "\n">>
        /\ NotebookSource(out.ipynb, 2) = <<PrintLine>>

\* the three files of the two-cell template have been written
C12_Witness ==
    /\ TwoCellTemplate
    /\ pc = "return"
    /\ out.script.exists /\ out.md.exists /\ out.ipynb.exists
    /\ Contains(Join(NotebookSource(out.ipynb, 1)), <<"-", " ", "[", "Title", "]">>)

\* the template has a code cell
HasCodeCell == \E i \in 1..Len(template) : template[i].cell_type = "code"

\* the steps of _generate_files after ScriptWriter.write has returned
ScriptStepDone == {"markdown", "notebook", "colab", "return"}

\* the first line of the script for each kernel language
Shebang == [python |-> <<"#!/usr/bin/env python3", "\n">>, bash |-> <<"#!/bin/sh -e", "\n">>]

\* C13: once ScriptWriter.write has returned, the script of the template
\* exists if and only if the template has a code cell, and it is then
\* executable (mode 0755); at every moment a script that exists belongs to a
\* template with a code cell, starts with the shebang line of the kernel
\* language of the template, and holds besides its header only lines of
\* code cells of the template and empty lines, never text of a markdown cell
C13_ScriptIffCode ==
    /\ pc \in ScriptStepDone => /\ out.script.exists <=> HasCodeCell
                               /\ out.script.exists <=> out.script.mode = "0755"
    /\ pc \in {"cells", "script"} \cup ScriptStepDone
       => (<<file_counter, "script">> \in written <=> out.script.exists)
    /\ out.script.exists =>
          /\ HasCodeCell
          /\ StartsWith(FileText(out.script), Shebang[language])
          /\ out.script.content[1] = [cell |-> 0, text |-> Shebang[language] \o <<"\n">>]
          /\ \A k \in 2..Len(out.script.content) :
             \A c \in {out.script.content[k]} :
                IF c.cell = 0 THEN c.text = <<"\n">>
                ELSE /\ c.cell \in 1..Len(template)
                     /\ template[c.cell].cell_type = "code"
                     /\ \/ c.text = <<"\n">>
                        \/ \E n \in 1..Len(template[c.cell].source) :
                              c.text = template[c.cell].source[n]

\* the script of a template for the bash kernel with a markdown cell and a
\* code cell has been written and made executable
C13_Witness ==
    /\ pc = "return"
    /\ language = "bash"
    /\ template = <<TitleCell, PrintCell>>
    /\ out.script.exists
    /\ out.script.mode = "0755"
    /\ FileText(out.script) = <<"#!/bin/sh -e", "\n", "\n", "print(1)", "\n", "\n">>

\* the directive %gencelloutputs is present: a line of a markdown cell of
\* the template starts with it
Directive ==
    \E i \in 1..Len(template) :
       /\ template[i].cell_type = "markdown"
       /\ \E k \in 1..Len(template[i].source) :
             StartsWith(template[i].source[k], <<"%gencelloutputs">>)

\* the positions of the code cells of a template, in order
CodeCells(t) == SelectSeq([i \in 1..Len(t) |-> i], LAMBDA i : t[i].cell_type = "code")

\* what the script holds for cell i of the template
ScriptOf(i) ==
    Join([k \in 1..Len(SelectSeq(out.script.content, LAMBDA c : c.cell = i)) |->
             SelectSeq(out.script.content, LAMBDA c : c.cell = i)[k].text])

\* the number of tokens of s that are t
RECURSIVE Count(_, _)
Count(s, t) == IF s = << >> THEN 0
               ELSE (IF Head(s) = t THEN 1 ELSE 0) + Count(Tail(s), t)

\* the output that running cell i of the template in its script form
\* gives: a plot if it plots, else the text it prints; a cell with a line
\* '#%%colabonly' has no script form
CapturedOutput(i) ==
    IF \E k \in 1..Len(template[i].source) :
          StartsWith(template[i].source[k], <<"#", "%%", "colab", "only">>)
    THEN << >>
    ELSE IF Count(ScriptOf(i), "plt.plot()") > 0 THEN <<PlotOutput>>
    ELSE IF Count(ScriptOf(i), "print(1)") > 0
    THEN <<StreamOutput(Count(ScriptOf(i), "print(1)"))>>
    ELSE << >>

\* the outputs that cell i has after the script step: the captured output
\* of a code cell when the directive is present and the kernel language is
\* Python, none otherwise
AttachedOutput(i) ==
    IF Directive /\ language = "python" /\ template[i].cell_type = "code"
    THEN CapturedOutput(i) ELSE << >>

\* the cells of a notebook file hold the outputs attached to them
OutputsIn(f) ==
    \A k \in 1..Len(f.content) : f.content[k].json.outputs = AttachedOutput(f.content[k].cell)

\* the markdown file holds an output block for cell i
OutputBlockIn(f, i) ==
    \E k \in 1..Len(f.content) :
       f.content[k].cell = i /\ f.content[k].text = <<"<div class=\"output\">", "\n">>

MaxLines == 3

Programs == {"make-docs.py", "process_notebook.py"}

IMP_STABLE_RELEASE(prog) == IF prog = "make-docs.py" THEN "2.20.0" ELSE "2.17.0"

\* imp_version of main()
imp_version(prog, b) == IF b = "main" THEN IMP_STABLE_RELEASE(prog) ELSE "nightly"

\* TagFile.__init__ and the name TagFile.download gives the local file
TagFile(prog, doctype, version) ==
    [doctype |-> doctype,
     doctop |-> <<"https://integrativemodeling.org/", version, "/doc", "/", doctype, "/">>,
     xml_filename |-> IF prog = "make-docs.py" THEN <<doctype, "-tags.xml">>
                      ELSE <<".cache", "/", doctype, "-", version, "-tags.xml">>]

\* get_tag_files
get_tag_files(prog, version) ==
    <<TagFile(prog, "manual", version), TagFile(prog, "ref", version)>>

\* str.strip
Strip(s) ==
    LET P == {i \in 1..Len(s) : s[i] \notin WS}
    IN IF P = {} THEN << >> ELSE SubSeq(s, Min(P), Max(P))

\* read_yaml_file: the title of the first line that starts with 'title:',
\* None when there is no such line
read_yaml_file(lines) ==
    LET P == {i \in 1..Len(lines) : StartsWith(lines[i], <<"title:">>)}
    IN IF P = {} THEN <<"None">> ELSE Strip(Tail(lines[Min(P)]))

\* " ".join(("%s=%s" % (t.xml_filename, t.doctop)) for t in tags)
RECURSIVE tagfiles(_)
tagfiles(ts) ==
    IF ts = << >> THEN << >>
    ELSE Head(ts).xml_filename \o <<"=">> \o Head(ts).doctop
         \o (IF Tail(ts) = << >> THEN << >> ELSE <<" ">> \o tagfiles(Tail(ts)))

\* " ".join("%s.md" % m for m in root)
RECURSIVE input_files(_)
input_files(roots) ==
    IF roots = << >> THEN << >>
    ELSE <<Head(roots), ".md">>
         \o (IF Tail(roots) = << >> THEN << >> ELSE <<" ">> \o input_files(Tail(roots)))

\* the keys that make_doxyfile of make-docs.py sets, each with the text
\* after 'KEY = '
make_docs_keys(title, ts) ==
    << [key |-> "LAYOUT_FILE", value |-> <<"<DOXDIR>", "/layout.xml">>],
       [key |-> "PROJECT_NAME", value |-> <<"\"">> \o title \o <<"\"">>],
       [key |-> "INPUT", value |-> <<".">>],
       [key |-> "SEARCHENGINE", value |-> <<"NO">>],
       [key |-> "TOC_INCLUDE_HEADINGS", value |-> <<"2">>],
       [key |-> "IMAGE_PATH", value |-> <<"images">>],
       [key |-> "EXAMPLE_PATH", value |-> <<"..">>],
       [key |-> "HTML_HEADER", value |-> <<"<DOXDIR>", "/header.html">>],
       [key |-> "HTML_FOOTER", value |-> <<"<DOXDIR>", "/footer.html">>],
       [key |-> "GENERATE_LATEX", value |-> <<"NO">>],
       [key |-> "TAGFILES", value |-> tagfiles(ts)] >>

\* the keys that make_doxyfile of process_notebook.py sets
process_notebook_keys(roots, ts) ==
    << [key |-> "LAYOUT_FILE", value |-> <<"\"", "<DOXDIR>", "/layout.xml", "\"">>],
       [key |-> "PROJECT_NAME", value |-> <<"\"", "IMP Tutorial", "\"">>],
       [key |-> "INPUT", value |-> input_files(roots)],
       [key |-> "SEARCHENGINE", value |-> <<"NO">>],
       [key |-> "TOC_INCLUDE_HEADINGS", value |-> <<"2">>],
       [key |-> "IMAGE_PATH", value |-> <<".">>],
       [key |-> "EXAMPLE_PATH", value |-> <<"..">>],
       [key |-> "HTML_HEADER", value |-> <<"\"", "<DOXDIR>", "/header.html", "\"">>],
       [key |-> "HTML_FOOTER", value |-> <<"\"", "<DOXDIR>", "/footer.html", "\"">>],
       [key |-> "GENERATE_LATEX", value |-> <<"NO">>],
       [key |-> "AUTOLINK_SUPPORT", value |-> <<"NO">>],
       [key |-> "TAGFILES", value |-> tagfiles(ts)] >>

\* the chain of tests with the line of the first key of the table for every
\* recognized line
doxyfile_line_first_key(line, keys) ==
    IF \A k \in 1..Len(keys) : ~StartsWith(line, <<keys[k].key, " ">>) THEN line
    ELSE <<keys[1].key, " ", "=", " ">> \o keys[1].value \o <<"\n">>

\* the chain of tests of make_doxyfile on one line of the dump: the line of
\* the first key it starts with, or the line as it is
doxyfile_line(line, keys) ==
    LET P == {k \in 1..Len(keys) : StartsWith(line, <<keys[k].key, " ">>)}
    IN IF P = {} THEN line
       ELSE <<keys[Min(P)].key, " ", "=", " ">> \o keys[Min(P)].value \o <<"\n">>

\* the loop of make_doxyfile over the lines of the dump: what is written
\* to Doxyfile
make_doxyfile(lines, keys) == [i \in 1..Len(lines) |-> doxyfile_line(lines[i], keys)]

\* regex.search(line) for '{#(\S+)}': the leftmost '{#' after which a run
\* of tokens that are not white space holds a '}', the group reaching to
\* the last such '}'
page_name_md_re(line) ==
    LET Ends(i) == {e \in (i + 3)..(i + 1 + SpanNotIn(line, i + 2, WS)) : line[e] = "}"}
        P == {i \in 1..(Len(line) - 1) : line[i] = "{" /\ line[i + 1] = "#" /\ Ends(i) # {}}
    IN IF P = {} THEN NoMatch
       ELSE [ok |-> TRUE, group |-> SubSeq(line, Min(P) + 2, Max(Ends(Min(P))) - 1)]

\* get_pagename with the last matching line in the place of the first
get_pagename_last(lines) ==
    LET P == {i \in 1..Len(lines) : page_name_md_re(lines[i]).ok}
    IN IF P = {} THEN [err |-> "ValueError: Could not determine page name", name |-> << >>]
       ELSE [err |-> "none", name |-> page_name_md_re(lines[Max(P)]).group]

\* get_pagename: the group of the first line that matches, ValueError when
\* no line does
get_pagename(lines) ==
    LET P == {i \in 1..Len(lines) : page_name_md_re(lines[i]).ok}
    IN IF P = {} THEN [err |-> "ValueError: Could not determine page name", name |-> << >>]
       ELSE [err |-> "none", name |-> page_name_md_re(lines[Min(P)]).group]

\* the key of get_page_map for a page name
html_name(pagename) == IF pagename = <<"mainpage">> THEN <<"index">> ELSE pagename

\* get_page_map over the files order[k], order[k+1], ... of the doc
\* directory: the source file of each page so far in m; process_notebook.py
\* skips README.md
RECURSIVE get_page_map(_, _, _, _, _)
get_page_map(prog, files, order, k, m) ==
    IF k > Len(order) THEN [err |-> "none", map |-> m]
    ELSE IF prog = "process_notebook.py" /\ order[k] = "README"
    THEN get_page_map(prog, files, order, k + 1, m)
    ELSE IF get_pagename(files[order[k]]).err # "none"
    THEN [err |-> get_pagename(files[order[k]]).err, map |-> m]
    ELSE get_page_map(prog, files, order, k + 1,
                      Put(m, html_name(get_pagename(files[order[k]]).name), order[k]))

CCLicense == "Attribution-ShareAlike 4.0 International"

\* get_license_link: the badge when the text of LICENSE holds the name of
\* the license, the empty text when it does not or when there is no LICENSE
get_license_link(lic) ==
    IF lic # "missing" /\ \E k \in 1..Len(lic) : lic[k] = CCLicense
    THEN <<"\n", "<div class=\"doxlicense\">", "\n",
           "<a href=\"https://creativecommons.org/licenses/by-sa/4.0/\">", "\n",
           "</div>">>
    ELSE << >>

\* edit_link of patch_html
edit_link(prog, repo, b, source) ==
    IF prog = "make-docs.py"
    THEN <<"  $('#main-menu').append('", "https://github.com/salilab/", repo, "/blob/", b,
           "/doc/", source, ".md", "');", "\n">>
    ELSE <<"  $('#main-menu').append('", "https://github.com/salilab/", repo, "/blob/", b,
           "/", "<path>", "/.template.", source, ".ipynb", "');", "\n">>

MenuStart == "  initMenu('',false,false"
FooterStart == "<hr class=\"footer\""

\* what patch_html writes for one line, without the edit link
patch_line_no_edit(line, edit, badge) ==
    <<line>> \o (IF StartsWith(line, <<FooterStart>>) /\ badge # << >> THEN <<badge>> ELSE << >>)

\* what patch_html writes for one line of the page
patch_line(line, edit, badge) ==
    <<line>>
    \o (IF StartsWith(line, <<MenuStart>>) THEN <<edit>> ELSE << >>)
    \o (IF StartsWith(line, <<FooterStart>>) /\ badge # << >> THEN <<badge>> ELSE << >>)

\* the loop of patch_html over the lines read from the page
RECURSIVE patch_lines(_, _, _)
patch_lines(contents, edit, badge) ==
    IF contents = << >> THEN << >>
    ELSE patch_line(Head(contents), edit, badge) \o patch_lines(Tail(contents), edit, badge)

\* patch_html: what the page holds after it, and the exception it raises
\* when no line starts the menu
patch_html(contents, edit, badge) ==
    [written |-> patch_lines(contents, edit, badge),
     err |-> IF \E k \in 1..Len(contents) : StartsWith(contents[k], <<MenuStart>>)
             THEN "none" ELSE "ValueError: Failed to patch"]

\* the loop of add_html_links over the pages order[k], order[k+1], ...: the
\* pages after it and the exception that ends it
RECURSIVE patch_pages(_, _, _, _, _, _, _)
patch_pages(prog, pages, order, k, pagemap, b, badge) ==
    IF k > Len(order) THEN [html |-> pages, err |-> "none"]
    ELSE IF order[k] = <<"pages">>
    THEN patch_pages(prog, pages, order, k + 1, pagemap, b, badge)
    ELSE IF order[k] \notin DOMAIN pagemap
    THEN [html |-> pages, err |-> "KeyError"]
    ELSE IF patch_html(pages[order[k]], edit_link(prog, "repo", b, pagemap[order[k]]),
                       badge).err # "none"
    THEN [html |-> [pages EXCEPT ![order[k]] =
                       patch_html(pages[order[k]],
                                  edit_link(prog, "repo", b, pagemap[order[k]]),
                                  badge).written],
          err |-> "ValueError: Failed to patch"]
    ELSE patch_pages(prog,
                     [pages EXCEPT ![order[k]] =
                         patch_html(pages[order[k]],
                                    edit_link(prog, "repo", b, pagemap[order[k]]),
                                    badge).written],
                     order, k + 1, pagemap, b, badge)

\* fix_menu_links: contents.replace('nightly', imp_version)
fix_menu_links(contents, version) ==
    IF version = "nightly" THEN contents ELSE Replace(contents, "nightly", <<version>>)

\* the injective sequences over a set: the orders in which glob may list it
Orders(S) == {f \in [1..Cardinality(S) -> S] : \A i, j \in 1..Cardinality(S) : f[i] = f[j] => i = j}

\* lines of the output of 'doxygen -s -g -'
ConfigLine(key) == <<key, " ", "=", "\n">>
InputLine == ConfigLine("INPUT")
EncodingLine == <<"INPUT_ENCODING", " ", "=", " ", "UTF-8", "\n">>
AutolinkLine == <<"AUTOLINK_SUPPORT", " ", "=", " ", "YES", "\n">>
StandardDump ==
    << ConfigLine("FILE_VERSION_FILTER"), ConfigLine("LAYOUT_FILE"), ConfigLine("PROJECT_NAME"),
       InputLine, EncodingLine, ConfigLine("SEARCHENGINE"), ConfigLine("TOC_INCLUDE_HEADINGS"),
       ConfigLine("IMAGE_PATH"), ConfigLine("HTML_HEADER"), ConfigLine("HTML_FOOTER"),
       ConfigLine("GENERATE_LATEX"), AutolinkLine, ConfigLine("TAGFILES"),
       ConfigLine("EXAMPLE_PATH") >>
Dumps == SeqsUpTo({InputLine, EncodingLine, AutolinkLine}, MaxLines) \cup {StandardDump}

\* lines of the pages that doxygen writes
MenuLine == <<MenuStart, ",'search.php','Search');", "\n">>
FooterLine == <<FooterStart, "/>", "\n">>
BodyLine == <<"</body>", "\n">>
StandardPage == << <<"$(function() {", "\n">>, MenuLine, <<"});", "\n">>, FooterLine >>
Pages == SeqsUpTo({MenuLine, FooterLine, BodyLine}, MaxLines) \cup {StandardPage}

\* the pages that are tried with a dump: all of them with the standard
\* dump, the standard page with the others
PagesFor(d) == IF d = StandardDump THEN Pages ELSE {StandardPage}

\* the files *.md of a doc directory
MdFile(t) == (t :> << <<"#", " ", "title", " ", "{", "#", t, "}", "\n">>, <<"=====", "\n">> >>)
MdDirs ==
    { MdFile("mainpage") @@ MdFile("other"),
      ("good" :> << <<"#", " ", "title", " ", "{", "#", "anchor", "}", "\n">>,
                    <<"foo", " ", "{", "#", "later", "}", "\n">>, <<"bar">> >>)
      @@ ("late" :> << <<"#", " ", "title", "\n">>, <<"foo", "{", "#", "a", "}", "{", "#", "b", "}", "\n">> >>),
      MdFile("mainpage") @@ ("bad" :> << <<"#", " ", "title", "\n">>, <<"foo", "\n">>, <<"bar">> >>),
      MdFile("mainpage") @@ ("README" :> << <<"#", " ", "About", "\n">> >>) }

\* the text of the file LICENSE
Licenses == {"missing", <<"Some random license">>,
             <<"Creative Commons", " ", CCLicense, "\n">>}

\* the pages that doxygen writes for a doc directory: one page with the
\* lines page for each file with a page name, the list of pages, and with
\* extra a page that has no source file
GeneratedPages(files, page, extra) ==
    LET names == {html_name(get_pagename(files[f]).name) :
                     f \in {g \in DOMAIN files : get_pagename(files[g]).err = "none"}}
                 \cup (IF extra THEN {<<"files">>} ELSE {})
    IN [n \in names \cup {<<"pages">>} |-> IF n = <<"pages">> THEN << <<"foo">> >> ELSE page]

\* no template is generated
GenIdle ==
    /\ nroots = 1
    /\ tags = << >>
    /\ file_counter = 0
    /\ refs = << >>
    /\ toc = [auto_toc |-> 0, entries |-> << >>]
    /\ language = "python"
    /\ template = << >>
    /\ cells = << >>
    /\ ci = 1
    /\ gen_output = FALSE
    /\ context = << >>
    /\ counter = 0
    /\ nb_cells = << >>
    /\ colab_cells = << >>
    /\ out = NoFiles
    /\ written = {}

DocsInit ==
    /\ pc = "main"
    /\ err = "none"
    /\ script \in Programs
    /\ branch \in {"main", "develop"}
    /\ metadata = "missing"
    /\ dump = << >>
    /\ dump_status = NoStatus
    /\ doxyfile = NoFile
    /\ md_files = << >>
    /\ license = "missing"
    /\ html = << >>
    /\ menudata = << >>
    /\ calls = << >>
    /\ returncode = NoStatus
    /\ GenIdle
    /\ CacheIdle
    /\ IdxIdle

\* the file metadata.yaml: none in either directory, one with a title
\* among other keys, one with no title
Metadatas ==
    {"missing",
     << <<"bar:", " ", "baz", "\n">>, <<"title:", " ", "Intro", " ", "\n">>,
        <<"foo:", " ", "bar", "\n">> >>,
     << <<"bar:", " ", "baz", "\n">>, <<"foo:", " ", "bar", "\n">> >>}

\* the end of the program with the exit status 0 for every exception
DocsFail_status_0(e) == pc' = "failed" /\ err' = e /\ returncode' = 0

\* an exception that main() does not catch: the traceback ends with the
\* exception, and the exit status is 1
DocsFail(e) == pc' = "failed" /\ err' = e /\ returncode' = 1

\* main() up to get_tag_files
DocsMain ==
    /\ pc = "main"
    /\ pc' = "get_tag_files"
    /\ UNCHANGED <<err, genvars, docvars>>
    /\ UNCHANGED <<cachevars, idxvars>>

\* get_tag_files: the two tag files are fetched, which may fail
DocsGetTagFiles ==
    /\ pc = "get_tag_files"
    /\ calls' = Append(calls, "get_tag_files")
    /\ \E fetched \in BOOLEAN :
          IF fetched
          THEN /\ pc' = IF script = "make-docs.py" THEN "make_doxyfile" ELSE "generate_files"
               /\ UNCHANGED <<err, returncode>>
          ELSE DocsFail("URLError")
    /\ UNCHANGED <<genvars, script, branch, metadata, dump, dump_status, doxyfile, md_files,
                   license, html, menudata>>
    /\ UNCHANGED <<cachevars, idxvars>>

\* the loop of main() of process_notebook.py over the templates, which the
\* specification Spec describes step by step
DocsGenerateFiles ==
    /\ pc = "generate_files"
    /\ calls' = Append(calls, "generate_files")
    /\ \E generated \in BOOLEAN :
          IF generated THEN pc' = "make_doxyfile" /\ UNCHANGED <<err, returncode>>
          ELSE DocsFail("ValueError")
    /\ UNCHANGED <<genvars, script, branch, metadata, dump, dump_status, doxyfile, md_files,
                   license, html, menudata>>
    /\ UNCHANGED <<cachevars, idxvars>>

\* make_doxyfile: make-docs.py reads the title first; Doxyfile is written
\* from the lines that doxygen prints, and the exit status of doxygen is
\* looked at after that
DocsMakeDoxyfile ==
    /\ pc = "make_doxyfile"
    /\ calls' = Append(calls, "make_doxyfile")
    /\ \E m \in IF script = "make-docs.py" THEN Metadatas ELSE {"missing"} :
       \E d \in Dumps, ret \in {0, 1} :
       \E ts \in {get_tag_files(script, imp_version(script, branch))} :
       \E keys \in {IF script = "make-docs.py"
                    THEN make_docs_keys(IF m = "missing" THEN << >> ELSE read_yaml_file(m), ts)
                    ELSE process_notebook_keys(<<"root">>, ts)} :
          /\ metadata' = m
          /\ IF script = "make-docs.py" /\ m = "missing"
             THEN /\ DocsFail("ValueError: Could not find metadata")
                  /\ UNCHANGED <<dump, dump_status, doxyfile>>
             ELSE /\ dump' = d
                  /\ dump_status' = ret
                  /\ doxyfile' = File(make_doxyfile(d, keys), "0644")
                  /\ IF ret # 0 THEN DocsFail("OSError: doxygen failed")
                     ELSE pc' = "run_doxygen" /\ UNCHANGED <<err, returncode>>
    /\ UNCHANGED <<genvars, script, branch, md_files, license, html, menudata>>
    /\ UNCHANGED <<cachevars, idxvars>>

\* run_doxygen: doxygen reads the doc directory and writes the pages
DocsRunDoxygen ==
    /\ pc = "run_doxygen"
    /\ calls' = Append(calls, "run_doxygen")
    /\ \E ret \in {0, 1} :
          IF ret # 0
          THEN /\ DocsFail("CalledProcessError")
               /\ UNCHANGED <<md_files, html, menudata>>
          ELSE \E files \in MdDirs, page \in PagesFor(dump), extra \in BOOLEAN :
                  /\ md_files' = files
                  /\ html' = GeneratedPages(files, page, extra)
                  /\ menudata' = <<"https://integrativemodeling.org/", "nightly", "/doc", "nightly">>
                  /\ pc' = "add_html_links"
                  /\ UNCHANGED <<err, returncode>>
    /\ UNCHANGED <<genvars, script, branch, metadata, dump, dump_status, doxyfile, license>>
    /\ UNCHANGED <<cachevars, idxvars>>

\* add_html_links: the license is read, the page map is made and the pages
\* are patched, in the orders in which glob lists the files
DocsAddHtmlLinks ==
    /\ pc = "add_html_links"
    /\ calls' = Append(calls, "add_html_links")
    /\ \E lic \in Licenses :
       \E pm \in {get_page_map(script, md_files, o, 1, << >>) : o \in Orders(DOMAIN md_files)} :
       \E r \in {patch_pages(script, html, o, 1, pm.map, branch, get_license_link(lic)) :
                    o \in Orders(DOMAIN html)} :
          /\ license' = lic
          /\ IF pm.err # "none" THEN DocsFail(pm.err) /\ UNCHANGED html
             ELSE /\ html' = r.html
                  /\ IF r.err # "none" THEN DocsFail(r.err)
                     ELSE pc' = "fix_menu_links" /\ UNCHANGED <<err, returncode>>
    /\ UNCHANGED <<genvars, script, branch, metadata, dump, dump_status, doxyfile, md_files,
                   menudata>>
    /\ UNCHANGED <<cachevars, idxvars>>

\* fix_menu_links, after which main() returns
DocsFixMenuLinks ==
    /\ pc = "fix_menu_links"
    /\ calls' = Append(calls, "fix_menu_links")
    /\ menudata' = fix_menu_links(menudata, imp_version(script, branch))
    /\ pc' = "done"
    /\ returncode' = 0
    /\ UNCHANGED <<genvars, err, script, branch, metadata, dump, dump_status, doxyfile, md_files,
                   license, html>>
    /\ UNCHANGED <<cachevars, idxvars>>

DocsNext ==
    \/ DocsMain
    \/ DocsGetTagFiles
    \/ DocsGenerateFiles
    \/ DocsMakeDoxyfile
    \/ DocsRunDoxygen
    \/ DocsAddHtmlLinks
    \/ DocsFixMenuLinks

DocsSpec == DocsInit /\ [][DocsNext]_vars

\* the keys that make_doxyfile of each program recognizes
RecognizedKeys(prog) ==
    {"LAYOUT_FILE", "PROJECT_NAME", "INPUT", "SEARCHENGINE", "TOC_INCLUDE_HEADINGS",
     "IMAGE_PATH", "EXAMPLE_PATH", "HTML_HEADER", "HTML_FOOTER", "GENERATE_LATEX", "TAGFILES"}
    \cup (IF prog = "process_notebook.py" THEN {"AUTOLINK_SUPPORT"} ELSE {})

\* the text is one line: it ends with a line end and holds no other
OneLine(l) == l # << >> /\ \A k \in 1..Len(l) : l[k] = "\n" <=> k = Len(l)

\* C15: Doxyfile has as many lines as the dump of the default
\* configuration, in the same order: a line whose key the program does not
\* recognize is the line of the dump, unchanged, and a line whose key it
\* recognizes is one line that assigns that key
C15_DoxyfileLines ==
    doxyfile.exists =>
        /\ Len(doxyfile.content) = Len(dump)
        /\ \A i \in 1..Len(dump) :
              IF dump[i][1] \in RecognizedKeys(script)
              THEN /\ OneLine(doxyfile.content[i])
                   /\ StartsWith(doxyfile.content[i], <<dump[i][1], " ", "=", " ">>)
              ELSE doxyfile.content[i] = dump[i]

\* make-docs.py has written Doxyfile from the standard dump: the project
\* name is the title, and the line of AUTOLINK_SUPPORT, which it does not
\* recognize, is copied
C15_Witness ==
    /\ script = "make-docs.py"
    /\ pc = "run_doxygen"
    /\ dump = StandardDump
    /\ doxyfile.exists
    /\ doxyfile.content[3] = <<"PROJECT_NAME", " ", "=", " ", "\"", "Intro", "\"", "\n">>
    /\ doxyfile.content[12] = AutolinkLine
    /\ doxyfile.content[1] = ConfigLine("FILE_VERSION_FILTER")

\* the steps of main() after make_doxyfile
LaterSteps == {"run_doxygen", "add_html_links", "fix_menu_links"}

\* C16: when 'doxygen -s -g -' has ended with a status other than 0,
\* make_doxyfile has raised OSError('doxygen failed'): the program has ended
\* with the exit status 1 and that message, and run_doxygen, add_html_links
\* and fix_menu_links have not been called, so that no page and no menu
\* data have been written or patched
C16_DoxygenFailure ==
    dump_status \notin {NoStatus, 0} =>
        /\ pc = "failed"
        /\ err = "OSError: doxygen failed"
        /\ returncode = 1
        /\ calls[Len(calls)] = "make_doxyfile"
        /\ \A k \in 1..Len(calls) : calls[k] \notin LaterSteps
        /\ html = << >>
        /\ menudata = << >>

\* make-docs.py has ended with status 1 after doxygen has printed its
\* configuration and ended with status 1
C16_Witness ==
    /\ script = "make-docs.py"
    /\ dump_status = 1
    /\ dump = StandardDump
    /\ returncode = 1
    /\ err = "OSError: doxygen failed"
    /\ calls = <<"get_tag_files", "make_doxyfile">>

\* ------------------------------------------------------------------------
\* The download of the tag files: get_cached_url and TagFile.download
\* ------------------------------------------------------------------------
\* the runs of the program that use the same directory
Runs == {"run1", "run2"}

\* the tag files that get_tag_files downloads, in order
Doctypes == <<"manual", "ref">>

\* the age in seconds up to which get_cached_url uses a local file
CacheSeconds == 86400

\* a local file that does not exist
Missing == [exists |-> FALSE, first |-> FALSE, rest |-> FALSE, mtime |-> 0]
\* a local file that was written as a whole at time t
Whole(t) == [exists |-> TRUE, first |-> TRUE, rest |-> TRUE, mtime |-> t]
\* open(fname, 'wb') at time t: the file exists and is empty
Truncated(t) == [exists |-> TRUE, first |-> FALSE, rest |-> FALSE, mtime |-> t]

\* the file holds the whole response
IsWhole(f) == f.exists /\ f.first /\ f.rest

\* file_age
file_age(f, t) == t - f.mtime

\* the test with an age of a day counted as too old
needs_fetch_from_a_day(f, t) == ~f.exists \/ file_age(f, t) >= CacheSeconds

\* the test of get_cached_url: there is no local file, or it is more than a
\* day old
needs_fetch(f, t) == ~f.exists \/ file_age(f, t) > CacheSeconds

\* the first step in TagFile.download of each program
FirstStep(prog) == IF prog = "process_notebook.py" THEN "exists_cache" ELSE "urlopen"

CacheInit ==
    /\ pc = "main"
    /\ err = "none"
    /\ GenIdle
    /\ script \in Programs
    /\ branch = "main"
    /\ metadata = "missing"
    /\ dump = << >>
    /\ dump_status = NoStatus
    /\ doxyfile = NoFile
    /\ md_files = << >>
    /\ license = "missing"
    /\ html = << >>
    /\ menudata = << >>
    /\ calls = << >>
    /\ returncode = NoStatus
    /\ runs = [p \in Runs |-> [pc |-> "download", k |-> 1, err |-> "none", fetched |-> {}]]
    /\ cache_dir \in BOOLEAN
    /\ local_files \in [{"manual", "ref"} -> {Missing, Whole(0)}]
    /\ (script = "process_notebook.py" /\ ~cache_dir)
       => \A d \in {"manual", "ref"} : local_files[d] = Missing
    /\ now = 0
    /\ IdxIdle

\* the tag file that run p is downloading
Doctype(p) == Doctypes[runs[p].k]

\* run p goes on with the step s
Goto(p, s) == runs' = [runs EXCEPT ![p].pc = s]

\* run p ends with the exception e
Raise(p, e) == runs' = [runs EXCEPT ![p].pc = "failed", ![p].err = e]

\* get_tag_files calls TagFile.download for the next tag file
Download(p) ==
    /\ runs[p].pc = "download"
    /\ Goto(p, FirstStep(script))
    /\ UNCHANGED <<cache_dir, local_files, now>>
    /\ UNCHANGED <<pc, err, genvars, docvars, idxvars>>

\* if not os.path.exists(CACHE)
ExistsCache(p) ==
    /\ runs[p].pc = "exists_cache"
    /\ Goto(p, IF cache_dir THEN "check" ELSE "mkdir")
    /\ UNCHANGED <<cache_dir, local_files, now>>
    /\ UNCHANGED <<pc, err, genvars, docvars, idxvars>>

\* os.mkdir(CACHE), which raises FileExistsError when the directory exists
Mkdir(p) ==
    /\ runs[p].pc = "mkdir"
    /\ IF cache_dir THEN Raise(p, "FileExistsError") ELSE Goto(p, "check")
    /\ cache_dir' = TRUE
    /\ UNCHANGED <<local_files, now>>
    /\ UNCHANGED <<pc, err, genvars, docvars, idxvars>>

\* if not os.path.exists(fname) or file_age(fname) > 86400
Check(p) ==
    /\ runs[p].pc = "check"
    /\ Goto(p, IF needs_fetch(local_files[Doctype(p)], now) THEN "urlopen" ELSE "return")
    /\ UNCHANGED <<cache_dir, local_files, now>>
    /\ UNCHANGED <<pc, err, genvars, docvars, idxvars>>

\* urlopen, which may fail
Urlopen(p) ==
    /\ runs[p].pc = "urlopen"
    /\ \E ok \in BOOLEAN :
          IF ok THEN runs' = [runs EXCEPT ![p].pc = "open",
                                          ![p].fetched = runs[p].fetched \cup {Doctype(p)}]
          ELSE Raise(p, "URLError")
    /\ UNCHANGED <<cache_dir, local_files, now>>
    /\ UNCHANGED <<pc, err, genvars, docvars, idxvars>>

\* open(fname, 'wb'): the file is made or truncated
Open(p) ==
    /\ runs[p].pc = "open"
    /\ local_files' = [local_files EXCEPT ![Doctype(p)] = Truncated(now)]
    /\ Goto(p, "write")
    /\ UNCHANGED <<cache_dir, now>>
    /\ UNCHANGED <<pc, err, genvars, docvars, idxvars>>

\* fh.write(response.read()): the response is read, which may fail, and
\* its first part reaches the file
Write(p) ==
    /\ runs[p].pc = "write"
    /\ \E ok \in BOOLEAN :
          IF ok
          THEN /\ local_files' = [local_files EXCEPT ![Doctype(p)].first = TRUE,
                                                     ![Doctype(p)].mtime = now]
               /\ Goto(p, "close")
          ELSE /\ Raise(p, "URLError")
               /\ UNCHANGED local_files
    /\ UNCHANGED <<cache_dir, now>>
    /\ UNCHANGED <<pc, err, genvars, docvars, idxvars>>

\* the end of the with block: the rest of the response reaches the file
Close(p) ==
    /\ runs[p].pc = "close"
    /\ local_files' = [local_files EXCEPT ![Doctype(p)].rest = TRUE,
                                          ![Doctype(p)].mtime = now]
    /\ Goto(p, "return")
    /\ UNCHANGED <<cache_dir, now>>
    /\ UNCHANGED <<pc, err, genvars, docvars, idxvars>>

\* TagFile.download returns: the next tag file, or the end of get_tag_files
Returned(p) ==
    /\ runs[p].pc = "return"
    /\ IF runs[p].k < Len(Doctypes)
       THEN runs' = [runs EXCEPT ![p].pc = "download", ![p].k = runs[p].k + 1]
       ELSE Goto(p, "parse")
    /\ UNCHANGED <<cache_dir, local_files, now>>
    /\ UNCHANGED <<pc, err, genvars, docvars, idxvars>>

\* the tag files are read: process_notebook.py parses them, which fails for
\* a file that does not hold the whole response; make-docs.py hands them to
\* doxygen, which may fail on such a file
Parse(p) ==
    /\ runs[p].pc = "parse"
    /\ IF \A d \in DOMAIN local_files : IsWhole(local_files[d])
       THEN Goto(p, "done")
       ELSE IF script = "process_notebook.py"
       THEN Raise(p, "ParseError")
       ELSE \E ok \in BOOLEAN :
               IF ok THEN Goto(p, "done") ELSE Raise(p, "CalledProcessError")
    /\ UNCHANGED <<cache_dir, local_files, now>>
    /\ UNCHANGED <<pc, err, genvars, docvars, idxvars>>

\* time passes: up to a day, and a second more
Tick ==
    /\ \E t \in {CacheSeconds, CacheSeconds + 1} : now < t /\ now' = t
    /\ UNCHANGED <<runs, cache_dir, local_files>>
    /\ UNCHANGED <<pc, err, genvars, docvars, idxvars>>

CacheNext ==
    \/ \E p \in Runs : Download(p)
    \/ \E p \in Runs : ExistsCache(p)
    \/ \E p \in Runs : Mkdir(p)
    \/ \E p \in Runs : Check(p)
    \/ \E p \in Runs : Urlopen(p)
    \/ \E p \in Runs : Open(p)
    \/ \E p \in Runs : Write(p)
    \/ \E p \in Runs : Close(p)
    \/ \E p \in Runs : Returned(p)
    \/ \E p \in Runs : Parse(p)
    \/ Tick

CacheSpec == CacheInit /\ [][CacheNext]_vars

\* ------------------------------------------------------------------------
\* C17
\* ------------------------------------------------------------------------
\* a run starts a network access
StartsFetch(p) == runs[p].pc # "urlopen" /\ runs'[p].pc = "urlopen"

\* the tag file of run p is not on the disk, or is more than a day old
NoneOrOld(p) ==
    \/ ~local_files[Doctype(p)].exists
    \/ now - local_files[Doctype(p)].mtime > 86400

\* a run that tests the local file goes on to the network exactly when the
\* file is missing or more than 86400 seconds old, and otherwise returns the
\* file with no network access and no write
TestDecides(p) ==
    runs[p].pc = "check" /\ runs'[p].pc # "check" =>
        IF NoneOrOld(p)
        THEN runs'[p].pc = "urlopen"
        ELSE /\ runs'[p].pc = "return"
             /\ runs'[p].fetched = runs[p].fetched
             /\ local_files' = local_files

\* C17 as stated, for both programs: each download of a tag file goes to the
\* network if and only if no local file of that name exists or the file is
\* more than 86400 seconds old, and otherwise returns the local file with
\* no network access and no write.
C17_BothProgramsCache ==
    [][\A p \in Runs :
          /\ StartsFetch(p) => runs[p].pc = "check" /\ NoneOrOld(p)
          /\ TestDecides(p)]_vars

\* C17, per program. process_notebook.py keeps each tag file in the cache
\* directory for a day: a network access is started only by the test of
\* get_cached_url, exactly when the file is missing or more than 86400
\* seconds old; otherwise the file is returned with no network access and
\* no write. make-docs.py keeps no cache: every download goes to the
\* network, whatever is on the disk.
C17_CachedByProcessNotebook ==
    [][\A p \in Runs :
          IF script = "process_notebook.py"
          THEN /\ StartsFetch(p) => runs[p].pc = "check" /\ NoneOrOld(p)
               /\ TestDecides(p)
          ELSE /\ runs[p].pc = "download" /\ runs'[p].pc # "download"
                  => runs'[p].pc = "urlopen"
               /\ runs[p].pc # "check"]_vars

\* process_notebook.py has ended after it alone fetched one tag file, a day
\* after the start, and then used the other, a day old, from the cache
C17_Witness ==
    /\ script = "process_notebook.py"
    /\ now = CacheSeconds
    /\ local_files["manual"] = Whole(CacheSeconds)
    /\ local_files["ref"] = Whole(0)
    /\ \E p \in Runs :
          /\ runs[p].pc = "done" /\ runs[p].fetched = {"manual"}
          /\ \A q \in Runs \ {p} : runs[q].fetched = {}

\* ------------------------------------------------------------------------
\* C18
\* ------------------------------------------------------------------------
\* C18: when runs of process_notebook.py call get_cached_url for the same
\* tag files in the same cache directory at the same time, no run fails
\* because of the other: none finds the cache directory made between its
\* test and its mkdir, and none returns and parses a file that another run
\* has truncated or written in part. Fetching a file twice is the only
\* effect of the race.
C18_OnlyDuplicateFetch ==
    script = "process_notebook.py" =>
        \A p \in Runs :
            /\ runs[p].err \notin {"FileExistsError", "ParseError"}
            /\ runs[p].pc = "return" /\ Doctype(p) \notin runs[p].fetched
               => IsWhole(local_files[Doctype(p)])

\* ------------------------------------------------------------------------
\* C19
\* ------------------------------------------------------------------------
\* the text of LICENSE names the Creative Commons license
NamesCCLicense(lic) ==
    lic # "missing" /\ \E k \in 1..Len(lic) : lic[k] = "Attribution-ShareAlike 4.0 International"

\* a piece of a page is the license badge
IsBadge(c) == \E k \in 1..Len(c) : c[k] = "<div class=\"doxlicense\">"

\* a piece of a page is an edit link
IsEditLink(c) == c # << >> /\ c[1] = "  $('#main-menu').append('"

\* the source file of a page: the file whose page name is that of the page
SourceOf(n) ==
    CHOOSE f \in DOMAIN md_files :
        /\ get_pagename(md_files[f]).err = "none"
        /\ html_name(get_pagename(md_files[f]).name) = n

\* new is the page old with the edit link after each line that starts the
\* menu, with the badge after each footer rule if there is a badge, and
\* with nothing else added or taken away
Patched(old, new, source, withbadge) ==
    /\ SelectSeq(new, LAMBDA c : ~IsBadge(c) /\ ~IsEditLink(c)) = old
    /\ \A i \in 1..Len(new) :
          /\ StartsWith(new[i], <<"  initMenu('',false,false">>)
             => i < Len(new) /\ new[i + 1] = edit_link(script, "repo", branch, source)
          /\ IsEditLink(new[i])
             => i > 1 /\ StartsWith(new[i - 1], <<"  initMenu('',false,false">>)
          /\ (withbadge /\ StartsWith(new[i], <<"<hr class=\"footer\"">>))
             => i < Len(new) /\ IsBadge(new[i + 1])
          /\ IsBadge(new[i])
             => withbadge /\ i > 1 /\ StartsWith(new[i - 1], <<"<hr class=\"footer\"">>)

\* C19: when add_html_links has patched the pages, every page but
\* html/pages.html holds its lines as they were and in their order, with the
\* edit link to its source right after the line that starts the menu, and
\* with the license badge after the footer rule exactly when the text of
\* LICENSE names the Attribution-ShareAlike 4.0 International license (no
\* badge for another text or without a LICENSE); html/pages.html is as it
\* was.
C19_PagesPatched ==
    [][(pc = "add_html_links" /\ pc' = "fix_menu_links") =>
          /\ DOMAIN html' = DOMAIN html
          /\ \A n \in DOMAIN html :
                IF n = <<"pages">> THEN html'[n] = html[n]
                ELSE Patched(html[n], html'[n], SourceOf(n), NamesCCLicense(license'))]_vars

\* the pages are patched with the badge: the index page holds its lines,
\* the edit link and the badge
C19_Witness ==
    /\ pc = "fix_menu_links"
    /\ NamesCCLicense(license)
    /\ <<"index">> \in DOMAIN html
    /\ Len(html[<<"index">>]) = 6
    /\ IsEditLink(html[<<"index">>][3])
    /\ IsBadge(html[<<"index">>][6])
    /\ html[<<"pages">>] = << <<"foo">> >>

\* ------------------------------------------------------------------------
\* C20
\* ------------------------------------------------------------------------
\* the lines of a file that match the pattern of page names
MatchingLines(lines) == {i \in 1..Len(lines) : page_name_md_re(lines[i]).ok}

\* the files of the doc directory that get_page_map reads
FilesRead == DOMAIN md_files \ (IF script = "process_notebook.py" THEN {"README"} ELSE {})

\* C20: for every file of the doc directory, get_pagename returns the name
\* captured in the first line, in file order, that matches the pattern, and
\* never one of a later line: the file that starts with
\* '# title {#anchor}' and has '{#later}' in its second line gives
\* 'anchor'. It raises ValueError when no line of the file matches, and so
\* add_html_links ends with that ValueError only if a file it reads has no
\* such line, and goes through only if every file it reads has one.
C20_FirstMatchingLine ==
    /\ \A f \in DOMAIN md_files :
       \A r \in {get_pagename(md_files[f])} :
          IF MatchingLines(md_files[f]) = {}
          THEN r.err = "ValueError: Could not determine page name"
          ELSE /\ r.err = "none"
               /\ \E i \in MatchingLines(md_files[f]) :
                     /\ r.name = page_name_md_re(md_files[f][i]).group
                     /\ \A j \in 1..(i - 1) : j \notin MatchingLines(md_files[f])
    /\ "good" \in DOMAIN md_files =>
          /\ 2 \in MatchingLines(md_files["good"])
          /\ get_pagename(md_files["good"]).name = <<"anchor">>
    /\ err = "ValueError: Could not determine page name"
       => \E f \in FilesRead : MatchingLines(md_files[f]) = {}
    /\ pc \in {"fix_menu_links", "done"}
       => \A f \in FilesRead : MatchingLines(md_files[f]) # {}

\* the pages are patched for a directory with the file whose first and
\* second line both match: the page 'anchor' has the edit link to that file
C20_Witness ==
    /\ pc = "fix_menu_links"
    /\ "good" \in DOMAIN md_files
    /\ <<"anchor">> \in DOMAIN html
    /\ <<"later">> \notin DOMAIN html
    /\ \E i \in 1..Len(html[<<"anchor">>]) :
          html[<<"anchor">>][i] = edit_link(script, "repo", branch, "good")

\* ------------------------------------------------------------------------
\* C21
\* ------------------------------------------------------------------------
\* the lines of metadata.yaml that start with 'title:'
TitleLines(m) == {i \in 1..Len(m) : m[i] # << >> /\ m[i][1] = "title:"}

\* C21: when make_doxyfile of make-docs.py has run, the build has failed
\* with a non-zero exit status and without a Doxyfile if there is no
\* metadata.yaml or if the file has no 'title:' line; and when the file has
\* a 'title:' line among other keys, the Doxyfile names the project by the
\* stripped value of that line.
C21_MetadataRequired ==
    (script = "make-docs.py" /\ pc \notin {"main", "get_tag_files", "make_doxyfile"}
     /\ calls # << >> /\ \E k \in 1..Len(calls) : calls[k] = "make_doxyfile") =>
        IF metadata = "missing"
        THEN pc = "failed" /\ returncode = 1 /\ ~doxyfile.exists
        ELSE IF TitleLines(metadata) = {}
        THEN pc = "failed" /\ returncode = 1 /\ ~doxyfile.exists
        ELSE /\ doxyfile.exists
             /\ \A i \in 1..Len(dump) :
                   dump[i][1] = "PROJECT_NAME" =>
                      doxyfile.content[i]
                         = <<"PROJECT_NAME", " ", "=", " ", "\"", "Intro", "\"", "\n">>

\* ------------------------------------------------------------------------
\* showall.py: the index of the tutorials
\* ------------------------------------------------------------------------
\* _filter_repo_name, for a name as the sequence of its parts, where a
\* leading 'imp_' and a trailing '_tutorial' are parts of their own
_filter_repo_name(name) ==
    IF name = <<"imp_", "tutorial">> THEN <<"rnapolii_stalk">>
    ELSE LET n1 == IF name # << >> /\ Head(name) = "imp_" THEN Tail(name) ELSE name
         IN IF n1 # << >> /\ n1[Len(n1)] = "_tutorial" THEN SubSeq(n1, 1, Len(n1) - 1) ELSE n1

\* metadata.get('depends', [])
Depends(meta) == IF "depends" \in DOMAIN meta THEN meta.depends ELSE << >>

\* Tutorial.__init__
Tutorial(name, meta) ==
    [name |-> name, metadata |-> meta,
     deps |-> {_filter_repo_name(Depends(meta)[k]) : k \in 1..Len(Depends(meta))}]

\* Tutorial.__lt__
lt(self, other) ==
    IF other.name \in self.deps THEN FALSE
    ELSE IF self.name \in other.deps THEN TRUE
    ELSE Cardinality(self.deps) < Cardinality(other.deps)

\* the run that list.sort finds at the start of the list: its length, and
\* whether it descends
count_run(a) ==
    IF Len(a) <= 1 THEN [n |-> Len(a), descending |-> FALSE]
    ELSE [n |-> Max({k \in 2..Len(a) : \A i \in 3..k : lt(a[i], a[i - 1]) = lt(a[2], a[1])}),
          descending |-> lt(a[2], a[1])]

\* reverse_slice
Reverse(a) == [i \in 1..Len(a) |-> a[Len(a) + 1 - i]]

\* the binary search of binarysort for the place of pivot in a[l+1..r]
RECURSIVE bisect(_, _, _, _)
bisect(a, pivot, l, r) ==
    IF l >= r THEN l
    ELSE IF lt(pivot, a[l + ((r - l) \div 2) + 1])
    THEN bisect(a, pivot, l, l + ((r - l) \div 2))
    ELSE bisect(a, pivot, l + ((r - l) \div 2) + 1, r)

\* binarysort: a[1..start-1] is sorted, and a[start], a[start+1], ... are
\* inserted one by one
RECURSIVE binarysort(_, _)
binarysort(a, start) ==
    IF start > Len(a) THEN a
    ELSE binarysort(SubSeq(a, 1, bisect(a, a[start], 0, start - 1))
                    \o <<a[start]>>
                    \o SubSeq(a, bisect(a, a[start], 0, start - 1) + 1, start - 1)
                    \o SubSeq(a, start + 1, Len(a)),
                    start + 1)

\* sorted(ts) as list.sort computes it for a short list, with Tutorial.__lt__
sorted(a) ==
    binarysort(IF count_run(a).descending
               THEN Reverse(SubSeq(a, 1, count_run(a).n)) \o SubSeq(a, count_run(a).n + 1, Len(a))
               ELSE a,
               count_run(a).n + 1)

\* os.path.dirname(pth) for a directory found with the pattern
Dirname(pattern, d) == IF pattern = "*/build.json" THEN <<d>> ELSE <<"nightly", "/", d>>

\* the lines printed for one tutorial
TutorialLines(t) ==
    << <<"<dt><a href=\"//integrativemodeling.org/tutorials/">> \o t.name
          \o <<"/\">", t.metadata.title, "</a></dt>">>,
       <<"<dd>", "</dd>">> >>

RECURSIVE ListLines(_)
ListLines(a) == IF a = << >> THEN << >> ELSE TutorialLines(Head(a)) \o ListLines(Tail(a))

\* the directories of tutorials on the web site
TutorialDirs == {"a", "b", "c"}

\* the names of repositories in the 'depends' of metadata.yaml files
RepoNames == {<<"imp_", "a", "_tutorial">>, <<"b">>, <<"imp_", "c">>, <<"imp_", "tutorial">>}

\* the metadata.yaml files
Metadata ==
    {[title |-> "Title"], [title |-> "Title", show_in_index |-> "False"]}
    \cup {[title |-> "Title", depends |-> <<r>>] : r \in RepoNames}
    \cup {[title |-> "Title", depends |-> <<r, <<"imp_", "tutorial">>>>] :
             r \in {<<"b">>, <<"imp_", "c">>}}

IndexInit ==
    /\ pc = "print_tutorial_list"
    /\ err = "none"
    /\ GenIdle
    /\ DocsIdle
    /\ CacheIdle
    /\ IdxIdle

\* glob.glob(jsonglob): the directories found, in some order
IndexGlob ==
    /\ pc = "print_tutorial_list"
    /\ \E pattern \in {"*/build.json", "*/*/build.json"}, dirs \in SUBSET TutorialDirs :
       \E order \in Orders(dirs) :
       \E md \in [dirs -> Metadata] :
          /\ jsonglob' = pattern
          /\ jsons' = [k \in 1..Len(order) |->
                          [dirname |-> Dirname(pattern, order[k]), metadata |-> md[order[k]]]]
    /\ pth' = 1
    /\ tutorials' = << >>
    /\ pc' = "read"
    /\ UNCHANGED <<printed, err, genvars, docvars, cachevars>>

\* one turn of the loop over the directories: the tutorial is appended
\* unless its show_in_index is False
IndexRead ==
    /\ pc = "read"
    /\ pth <= Len(jsons)
    /\ tutorials' =
          IF "show_in_index" \in DOMAIN jsons[pth].metadata
             /\ jsons[pth].metadata.show_in_index = "False"
          THEN tutorials
          ELSE Append(tutorials, Tutorial(jsons[pth].dirname, jsons[pth].metadata))
    /\ pth' = pth + 1
    /\ UNCHANGED <<pc, jsonglob, jsons, printed, err, genvars, docvars, cachevars>>

\* the list is printed in the order of sorted(ts), if it is not empty
IndexPrint ==
    /\ pc = "read"
    /\ pth > Len(jsons)
    /\ printed' = IF tutorials = << >> THEN << >>
                  ELSE << <<"prefix">>, <<"<dl class=\"tutorials\">">> >>
                       \o ListLines(sorted(tutorials)) \o << <<"</dl>">> >>
    /\ pc' = "done"
    /\ UNCHANGED <<jsonglob, jsons, pth, tutorials, err, genvars, docvars, cachevars>>

IndexNext ==
    \/ IndexGlob
    \/ IndexRead
    \/ IndexPrint

IndexSpec == IndexInit /\ [][IndexNext]_vars

\* ------------------------------------------------------------------------
\* C22
\* ------------------------------------------------------------------------
\* the names of the tutorials printed, in the order of the lines
PrintedNames ==
    LET dt == SelectSeq(printed, LAMBDA l : l[1] = "<dt><a href=\"//integrativemodeling.org/tutorials/")
    IN [k \in 1..Len(dt) |-> SubSeq(dt[k], 2, Len(dt[k]) - 3)]

\* tutorial A lists tutorial B as a dependency: a name in the 'depends' of
\* A is, after _filter_repo_name, the name of B
ListsAsDependency(A, B) ==
    \E k \in 1..Len(Depends(A.metadata)) : _filter_repo_name(Depends(A.metadata)[k]) = B.name

\* some order of the listed tutorials has every dependency before the
\* tutorial that lists it
SomeOrderRespectsDependencies ==
    \E o \in Orders(1..Len(tutorials)) :
       \A i, j \in 1..Len(tutorials) :
          ListsAsDependency(tutorials[o[i]], tutorials[o[j]]) => j < i

\* C22: when the list is printed, for every two listed tutorials A and B
\* of which A lists B as a dependency (the dependencies having no cycle), B
\* is printed before A, whatever the set of tutorials and the order in which
\* glob finds them; and no tutorial whose show_in_index is False is
\* printed.
C22_DependenciesFirst ==
    pc = "done" =>
        /\ SomeOrderRespectsDependencies =>
              \A i, j \in 1..Len(PrintedNames) :
              \A A, B \in {tutorials[k] : k \in 1..Len(tutorials)} :
                 (PrintedNames[i] = A.name /\ PrintedNames[j] = B.name
                  /\ ListsAsDependency(A, B)) => j < i
        /\ \A k \in 1..Len(jsons) :
              ("show_in_index" \in DOMAIN jsons[k].metadata
               /\ jsons[k].metadata.show_in_index = "False")
              => \A i \in 1..Len(PrintedNames) : PrintedNames[i] # jsons[k].dirname

\* ------------------------------------------------------------------------
\* C23
\* ------------------------------------------------------------------------
\* the file numbers and sequence numbers against which an anchor is compared
MaxPair == 12

\* the places of the heading lines of a source that have no anchor
Unanchored(source) ==
    {k \in 1..Len(source) : ~anchor_re(source[k]).ok /\ noanchor_re(source[k]).ok}

\* C23: the number of the file never goes down, and the sequence number of
\* the table of contents goes down only when a table is begun for another
\* file; a markdown cell takes one new sequence number for each heading
\* without an anchor, and the anchor made for the pair (file number,
\* sequence number) is the anchor of no other pair, so that no two synthetic
\* anchors of a run are the same, within a template and across templates.
C23_DistinctAnchors ==
    [][/\ file_counter' >= file_counter
       /\ toc'.auto_toc < toc.auto_toc
          => toc'.auto_toc = 0 /\ (file_counter' > file_counter \/ pc' = "generate")
       /\ (pc = "cells" /\ cells[ci].cell_type = "markdown") =>
             \A new \in {add_missing_anchors(cells[ci].source, file_counter, toc.auto_toc).source} :
             \A U \in {Unanchored(cells[ci].source)} :
                /\ toc'.auto_toc = toc.auto_toc + Cardinality(U)
                /\ file_counter' = file_counter
                /\ \A k \in U :
                   \A x \in {anchor_re(new[k]).anchor} :
                   \A n \in {toc.auto_toc + Cardinality({j \in U : j <= k})} :
                      /\ \A j \in U : j # k => anchor_re(new[j]).anchor # x
                      /\ \A f \in 1..MaxPair, m \in 1..MaxPair :
                            <<f, m>> # <<file_counter, n>> => AutoAnchor(f, m) # x]_vars

\* the second template of a run has got two synthetic anchors
C23_Witness ==
    /\ file_counter = 2
    /\ toc.auto_toc = 2
    /\ \E i, j \in 1..Len(toc.entries) :
          /\ toc.entries[i].anchor = <<"autotoc", "2", "v", "1">>
          /\ toc.entries[j].anchor = <<"autotoc", "2", "v", "2">>

\* ------------------------------------------------------------------------
\* C24
\* ------------------------------------------------------------------------
\* C24: when both notebooks are written, every cell that is in both has the
\* same source in the two files: the second patch of a cell that the two
\* lists share changes nothing.
C24_SharedCellsAgree ==
    (pc = "return" /\ out.ipynb.exists /\ out.colab.exists) =>
        \A a \in 1..Len(out.ipynb.content), b \in 1..Len(out.colab.content) :
           out.ipynb.content[a].cell = out.colab.content[b].cell
           => out.ipynb.content[a].json.source = out.colab.content[b].json.source

\* ------------------------------------------------------------------------
\* C25
\* ------------------------------------------------------------------------
\* C25: a template with a cell whose list of source lines is empty is
\* generated without the IndexError of an empty list, and when the
\* generation has ended the cell is in the doc markdown and in the
\* notebook: the filters have kept it.
C25_EmptyCellKept ==
    \A i \in 1..Len(template) :
       template[i].source = << >> =>
          /\ err # "IndexError"
          /\ pc = "return" => InMd(i) /\ InNb(i)

====
